---- MODULE Spec2Model ----
(***************************************************************************)
(* A model of arborator's canvas graph editor, class CanvasManager of the  *)
(* renderer (src/unnamed/part_007): the node list, the connection list,    *)
(* the used-name set, the pointer-driven interaction modes, the connection *)
(* drawing gesture and the snapshot based undo/redo history.               *)
(*                                                                         *)
(* Object references of the code (a Connection's fromNode/toNode, the      *)
(* members of selectedNodes, connectionStartNode, draggedNode) are         *)
(* modelled by node ids; ids are Math.random() strings in the code and     *)
(* fresh numbers here.  restoreState replaces every node object, so a      *)
(* reference taken before it names an object that is no longer in the      *)
(* list: such a reference is the negated id.  The pointer is a canvas      *)
(* point; hit tests are computed from the node geometry as the code        *)
(* computes them.                                                          *)
(***************************************************************************)
EXTENDS Integers, Sequences, FiniteSets, TLC

(***************************************************************************)
(* Bounds of the model.                                                    *)
(***************************************************************************)
MaxNodes == 3      \* nodes of the opened document
MaxConns == 2      \* connections on the canvas
EditNodes == 2     \* nodes of the document in the editing specification
EditConns == 1     \* connections on the canvas in the editing specification
MaxNew == 1        \* nodes created on top of the document
MaxEvents == 9     \* events of one editing session
MaxHist == 2       \* checkpoints on the undo stack in the editing specification
MaxPending == 1    \* addNode calls awaiting the node catalog
MaxOps == 2        \* operations in one observed sequence
MaxDrags == 1      \* pointer moves that carry one node downwards
MaxEdits == 52     \* scalar edits in the history-cap specification
NameNodes == 4     \* nodes on the canvas in the naming specification
MaxNameEvents == 6 \* events of one session of the naming specification
FileNodes == 3     \* logical nodes of a document in the document specification
FileConns == 2     \* connections of a document in the document specification
MaxFileEvents == 4 \* events of one session of the document specification
MaxCollapseEvents == 6 \* events of one session of the collapse specification
MaxExportEvents == 4 \* events of one session of the export specification
MaxConfigIds == 2  \* different values of a random config reference id
MaxConfigEvents == 4 \* events of one session of the config specification
MaxGateEvents == 5 \* events of one session of the confirmation specification
TemplateNodes == 8 \* nodes on the canvas in the template specification
MaxTemplateEvents == 5 \* events of one session of the template specification
MaxDragEvents == 5 \* events of one session of the drag specification
MaxRectangleEvents == 5 \* events of one session of the rectangle specification

(***************************************************************************)
(* Program constants.                                                      *)
(***************************************************************************)
MAX_UNDO_STACK_SIZE == 50
NODE_HEIGHT == 60
MIN_NODE_WIDTH == 150
CONNECTION_POINT_RADIUS == 5
CONNECTION_CLICK_THRESHOLD == 15
CURVE_STEPS == 20
DUPLICATE_OFFSET == 50

\* Nodes of the opened document stand side by side, 50 apart.
NODE_SPACING == MIN_NODE_WIDTH + 50

VARIABLES
    nodes,                 \* this.nodes: sequence of node records
    connections,           \* this.connections: sequence of [fromNode, toNode] (node ids)
    usedNames,             \* this.usedNames
    selectedNodes,         \* this.selectedNodes (node ids)
    selectedConnections,   \* this.selectedConnections (positions in connections)
    isDragging,
    isPanning,
    isDrawingConnection,
    isRectangleSelecting,
    connectionStartNode,   \* [id, type] of the referenced node object, NullRef for null
    draggedNode,           \* [id, type] or NullRef
    undoStack,
    redoStack,
    errorMessage,          \* text of the error-message element on screen, "" when none
    nextId,                \* the next fresh node id
    pendingAdds,           \* addNode calls past saveState(), awaiting getNodeTypes()
    skipDeleteConfirmation,
    deleteModal,           \* the delete-confirmation modal is on screen
    currentNode,           \* RightColumn.currentNode: id of the displayed node, 0 for null
    buttonDown,            \* the mouse button is held down
    halted,                \* the renderer is inside a loop that does not end, or
                           \* restoreState threw halfway; no event is followed further
    opBase,                \* history variable: the graph before the observed operations
    opCount,               \* history variable: operations applied since opBase
    opDrag,                \* history variable: the current drag gesture is counted
    events,                \* the number of events handled so far
    treeFile,              \* the tree document the open dialog hands over
    exported,              \* the trees map of the last export
    exportedConfigs,       \* the configs table of the last export
    confirm,               \* the operation that waits for the save confirmation
    isQuitting,            \* the application quits
    shouldSave,            \* the last answer to the save confirmation
    functionTemplates,     \* template id -> the recorded subtree
    functionButtons,       \* the ribbon's list of function buttons
    selectionStart,        \* this.selectionStart
    gestureStart           \* history variable: the selection and the modifier at the
                           \* press that started the rectangle

vars == <<nodes, connections, usedNames, selectedNodes, selectedConnections,
          isDragging, isPanning, isDrawingConnection, isRectangleSelecting,
          connectionStartNode, draggedNode, undoStack, redoStack, errorMessage,
          nextId, pendingAdds, skipDeleteConfirmation, deleteModal, currentNode,
          buttonDown, halted, opBase, opCount, opDrag, events, treeFile, exported,
          exportedConfigs, confirm, isQuitting, shouldSave, functionTemplates,
          functionButtons, selectionStart, gestureStart>>

graph == <<nodes, connections, usedNames>>
modes == <<isDragging, isPanning, isDrawingConnection, isRectangleSelecting,
           connectionStartNode, draggedNode>>
selection == <<selectedNodes, selectedConnections>>
history == <<undoStack, redoStack>>
dialogs == <<pendingAdds, skipDeleteConfirmation, deleteModal>>
observed == <<opBase, opCount, opDrag>>
gate == <<confirm, isQuitting, shouldSave>>
rectangle == <<selectionStart, gestureStart>>
outside == <<treeFile, exported, exportedConfigs, confirm, isQuitting, shouldSave,
             functionTemplates, functionButtons, selectionStart, gestureStart>>

(***************************************************************************)
(* Helpers on sequences.                                                   *)
(***************************************************************************)
Range(s) == {s[i] : i \in 1..Len(s)}

NullRef == [id |-> 0, type |-> "none"]
Ref(node) == [id |-> node.id, type |-> node.type]

\* The node-type catalog entries the ribbon offers: (type, name, has_children).
NodeTypes ==
    << [type |-> "root",       name |-> "Root",         has_children |-> TRUE],
       [type |-> "control",    name |-> "Sequence",     has_children |-> TRUE],
       [type |-> "decorator",  name |-> "Repeat",       has_children |-> TRUE],
       [type |-> "action",     name |-> "CustomAction", has_children |-> FALSE],
       [type |-> "blackboard", name |-> "Blackboard",   has_children |-> FALSE],
       [type |-> "decorator",  name |-> "History",      has_children |-> TRUE] >>

\* getDefaultValueForType for the field of every config of S.
DefaultValues(S) == [c \in S |-> 0]

\* The CanvasNode object addNode builds.  A field the code leaves undefined is
\* "" (customName, child_key), 0 (n_times) or FALSE (collapsed).  configs
\* is the set of config names of the node, configValues the value of the
\* field of every config the node has values for (a config has one field,
\* whose name does not end in "_key");
\* the node types of the catalog here have none.
NewNode(id, t, x, y) ==
    [id |-> id, type |-> t.type, name |-> t.name, customName |-> "",
     x |-> x, y |-> y, has_children |-> t.has_children,
     n_times |-> IF t.name = "Repeat" THEN 1 ELSE 0,
     child_key |-> "", collapsed |-> FALSE,
     configs |-> {}, configValues |-> DefaultValues({})]

(***************************************************************************)
(* Geometry and hit testing.                                               *)
(***************************************************************************)
\* calculateNodeWidth for the short labels of the catalog: the minimum width.
calculateNodeWidth(node) == MIN_NODE_WIDTH

isOverConnectionPoint(node, x, y, isTop) ==
    LET centerX == node.x + (calculateNodeWidth(node) \div 2)
        centerY == IF isTop THEN node.y ELSE node.y + NODE_HEIGHT
    IN  (x - centerX) * (x - centerX) + (y - centerY) * (y - centerY)
            <= CONNECTION_POINT_RADIUS * CONNECTION_POINT_RADIUS

\* The canvas points the pointer is pressed or released at: the centre of
\* every connection point, and a point over nothing.
Nowhere == [x |-> -1000, y |-> -1000]
TopPoint(node) == [x |-> node.x + (calculateNodeWidth(node) \div 2), y |-> node.y]
BottomPoint(node) ==
    [x |-> node.x + (calculateNodeWidth(node) \div 2), y |-> node.y + NODE_HEIGHT]
PointerPoints ==
    {TopPoint(n) : n \in Range(nodes)} \cup {BottomPoint(n) : n \in Range(nodes)}
        \cup {Nowhere}

(***************************************************************************)
(* Graph queries.                                                          *)
(***************************************************************************)
\* A connection end that restoreState could not resolve: nodeMap.get(...)
\* of an id that is not in the restored node list.
Undefined == 0

\* The id field of the node object a reference names.
ObjId(e) == IF e < 0 THEN 0 - e ELSE e

IsLive(e) == \E n \in Range(nodes) : n.id = e

NodeOf(e) == CHOOSE n \in Range(nodes) : n.id = e

NodeType(id) ==
    IF \E n \in Range(nodes) : n.id = id
    THEN (CHOOSE n \in Range(nodes) : n.id = id).type
    ELSE "none"

getNodeChildren(id) ==
    {connections[i].toNode : i \in {j \in 1..Len(connections) : connections[j].fromNode = id}}

getNodeChildCount(id) ==
    Cardinality({j \in 1..Len(connections) : connections[j].fromNode = id})

hasParent(id) == \E j \in 1..Len(connections) : connections[j].toNode = id

FirstOf(S) == CHOOSE i \in S : \A j \in S : i <= j

\* The ids reachable from the frontier along fromNode -> toNode.
RECURSIVE ReachableFrom(_, _)
ReachableFrom(frontier, seen) ==
    LET next == {connections[j].toNode :
                    j \in {k \in 1..Len(connections) : connections[k].fromNode \in frontier}}
        fresh == next \ seen
    IN  IF fresh = {} THEN seen ELSE ReachableFrom(fresh, seen \cup fresh)

\* The set getDescendantNodes returns when its loop ends.
getDescendantNodes(id) == ReachableFrom({id}, {})

\* getDescendantNodes pushes every child it meets, visited or not: the loop
\* does not end when a cycle is reachable from the node.
DescendantLoopHangs(id) ==
    \E m \in getDescendantNodes(id) \cup {id} : m \in getDescendantNodes(m)

\* node.collapsed of the node object a reference names.  An object that
\* restoreState replaced was never collapsed: the specifications that undo
\* do not double-click.
Collapsed(ns, e) == \E n \in Range(ns) : n.id = e /\ n.collapsed

\* isNodeHidden follows the first connection into the node upwards until it
\* meets a collapsed parent or a node without a parent.  It throws instead:
\* a TypeError on an undefined parent, a RangeError when the parent chain is
\* a loop without a collapsed node.
RECURSIVE isNodeHiddenThrows(_, _, _, _)
isNodeHiddenThrows(ns, cs, e, fuel) ==
    LET ps == {j \in 1..Len(cs) : cs[j].toNode = e}
    IN  IF ps = {}
        THEN FALSE
        ELSE LET parent == cs[FirstOf(ps)].fromNode
             IN  IF parent = Undefined
                 THEN TRUE
                 ELSE IF Collapsed(ns, parent)
                 THEN FALSE
                 ELSE IF fuel = 0
                 THEN TRUE
                 ELSE isNodeHiddenThrows(ns, cs, parent, fuel - 1)

\* The value isNodeHidden returns when it does not throw.
RECURSIVE isNodeHidden(_, _, _, _)
isNodeHidden(ns, cs, e, fuel) ==
    LET ps == {j \in 1..Len(cs) : cs[j].toNode = e}
    IN  IF ps = {} \/ fuel = 0
        THEN FALSE
        ELSE LET parent == cs[FirstOf(ps)].fromNode
             IN  Collapsed(ns, parent) \/ isNodeHidden(ns, cs, parent, fuel - 1)

\* draw() throws on the canvas (ns, cs).
DrawThrows(ns, cs) ==
    \/ \E j \in 1..Len(cs) :
          \/ cs[j].fromNode = Undefined
          \/ cs[j].toNode = Undefined
          \/ isNodeHiddenThrows(ns, cs, cs[j].fromNode, Len(cs))
          \/ isNodeHiddenThrows(ns, cs, cs[j].toNode, Len(cs))
    \/ \E n \in Range(ns) : isNodeHiddenThrows(ns, cs, n.id, Len(cs))

(***************************************************************************)
(* Undo/redo history.                                                      *)
(***************************************************************************)
\* JSON.parse(JSON.stringify(...)) of nodes and connections plus a copy of
\* usedNames: a connection is stored with copies of its two node objects, of
\* which restoreState reads the id.  An undefined end is dropped by
\* JSON.stringify and is id 0 here.
Snapshot(ns, cs, un) ==
    [nodes |-> ns,
     connections |-> [i \in 1..Len(cs) |->
                        [fromNode |-> [id |-> ObjId(cs[i].fromNode)],
                         toNode |-> [id |-> ObjId(cs[i].toNode)]]],
     usedNames |-> un]

\* saveState() without the shift() of the oldest checkpoint.
PushCapped_NoShift(stack, state) == Append(stack, state)

\* The undo stack after saveState(): push, then shift() the oldest past the cap.
PushCapped(stack, state) ==
    LET pushed == Append(stack, state)
    IN  IF Len(pushed) > MAX_UNDO_STACK_SIZE THEN Tail(pushed) ELSE pushed

\* saveState() pushing the node objects themselves: the checkpoint pushed
\* before holds the same objects and shows what the live nodes are now.
saveStateUndo_Aliased(ns, cs, un) ==
    PushCapped([i \in 1..Len(undoStack) |->
                   IF i = Len(undoStack)
                   THEN [undoStack[i] EXCEPT !.nodes = ns]
                   ELSE undoStack[i]],
               Snapshot(ns, cs, un))

saveStateUndo(ns, cs, un) == PushCapped(undoStack, Snapshot(ns, cs, un))

\* The editor state undo and redo work on.
Editor(ns, cs, un, us, rs) ==
    [nodes |-> ns, connections |-> cs, usedNames |-> un,
     undoStack |-> us, redoStack |-> rs, threw |-> FALSE]

Current == Editor(nodes, connections, usedNames, undoStack, redoStack)

\* nodeMap.get(id) over the restored node list.
NodeMapGet(ns, id) == IF \E n \in Range(ns) : n.id = id THEN id ELSE Undefined

\* restoreState reads conn.fromNode.id of every stored connection: a stored
\* connection that lost an end makes it throw after nodes and usedNames are
\* assigned, and the connection list keeps the objects of the replaced list.
RestoreThrows(state) ==
    \E i \in 1..Len(state.connections) :
        \/ state.connections[i].fromNode.id = Undefined
        \/ state.connections[i].toNode.id = Undefined

StaleEnd(e) == IF e > 0 THEN 0 - e ELSE e

restoreState(ed, state, us, rs) ==
    [nodes |-> state.nodes,
     connections |->
        IF RestoreThrows(state)
        THEN [i \in 1..Len(ed.connections) |->
                [fromNode |-> StaleEnd(ed.connections[i].fromNode),
                 toNode |-> StaleEnd(ed.connections[i].toNode)]]
        ELSE [i \in 1..Len(state.connections) |->
                [fromNode |-> NodeMapGet(state.nodes, state.connections[i].fromNode.id),
                 toNode |-> NodeMapGet(state.nodes, state.connections[i].toNode.id)]],
     usedNames |-> state.usedNames,
     undoStack |-> us,
     redoStack |-> rs,
     threw |-> RestoreThrows(state)]

\* undo(): nothing on an empty undo stack.
undo(ed) ==
    IF Len(ed.undoStack) = 0
    THEN ed
    ELSE restoreState(ed, ed.undoStack[Len(ed.undoStack)],
                      SubSeq(ed.undoStack, 1, Len(ed.undoStack) - 1),
                      Append(ed.redoStack,
                             Snapshot(ed.nodes, ed.connections, ed.usedNames)))

\* redo(): nothing on an empty redo stack.
redo(ed) ==
    IF Len(ed.redoStack) = 0
    THEN ed
    ELSE restoreState(ed, ed.redoStack[Len(ed.redoStack)],
                      Append(ed.undoStack,
                             Snapshot(ed.nodes, ed.connections, ed.usedNames)),
                      SubSeq(ed.redoStack, 1, Len(ed.redoStack) - 1))

\* A reference held across restoreState names an object of the replaced list.
StaleRef(r) == [id |-> StaleEnd(r.id), type |-> r.type]

\* The canvas after undo() or redo() returned `ed`.
Restored(ed) ==
    /\ nodes' = ed.nodes
    /\ connections' = ed.connections
    /\ usedNames' = ed.usedNames
    /\ undoStack' = ed.undoStack
    /\ redoStack' = ed.redoStack
    /\ connectionStartNode' = StaleRef(connectionStartNode)
    /\ draggedNode' = StaleRef(draggedNode)
    /\ IF ed.threw
       THEN UNCHANGED <<selectedNodes, selectedConnections, currentNode>>
       ELSE selectedNodes' = {} /\ selectedConnections' = {} /\ currentNode' = 0
    /\ halted' = ed.threw
    /\ UNCHANGED buttonDown
    /\ opCount' = 0
    /\ opBase' = Snapshot(<<>>, <<>>, {})
    /\ opDrag' = FALSE
    /\ UNCHANGED <<isDragging, isPanning, isDrawingConnection, isRectangleSelecting,
                   errorMessage, nextId, dialogs>>

Undo ==
    /\ Len(undoStack) > 0
    /\ Restored(undo(Current))

Redo ==
    /\ Len(redoStack) > 0
    /\ Restored(redo(Current))

(***************************************************************************)
(* The observed sequence of operations: the graph before the first of them *)
(* and their number.  Undo and redo end a sequence; a full one starts anew.*)
(***************************************************************************)
Counted ==
    /\ opCount' = IF opCount \in 1..(MaxOps - 1) THEN opCount + 1 ELSE 1
    /\ opBase' = IF opCount \in 1..(MaxOps - 1)
                 THEN opBase
                 ELSE Snapshot(nodes, connections, usedNames)

(***************************************************************************)
(* Hit testing of node bodies and connection curves.                       *)
(***************************************************************************)
BodyPoint(node) ==
    [x |-> node.x + (calculateNodeWidth(node) \div 2), y |-> node.y + (NODE_HEIGHT \div 2)]

\* getNodeAtPosition: the last node in list order whose box holds the point,
\* 0 when none does.
getNodeAtPosition(p) ==
    LET hits == {i \in 1..Len(nodes) :
                    /\ p.x >= nodes[i].x /\ p.x <= nodes[i].x + calculateNodeWidth(nodes[i])
                    /\ p.y >= nodes[i].y /\ p.y <= nodes[i].y + NODE_HEIGHT}
    IN  IF hits = {} THEN 0 ELSE CHOOSE i \in hits : \A j \in hits : j <= i

\* isPointNearCurve: the cubic Bezier curve sampled at t = i/20, with the
\* sample points rounded down to whole pixels.
isPointNearCurve(x, y, fromX, fromY, toX, toY) ==
    LET distance == IF toY >= fromY THEN toY - fromY ELSE fromY - toY
    IN  \E i \in 0..CURVE_STEPS :
            LET a == CURVE_STEPS - i
                cube == CURVE_STEPS * CURVE_STEPS * CURVE_STEPS
                curveX == (a * a * a * fromX + 3 * a * a * i * fromX
                             + 3 * a * i * i * toX + i * i * i * toX) \div cube
                curveY == (2 * a * a * a * fromY + 3 * a * a * i * (2 * fromY + distance)
                             + 3 * a * i * i * (2 * toY - distance) + 2 * i * i * i * toY)
                             \div (2 * cube)
                dx == x - curveX
                dy == y - curveY
            IN  dx * dx + dy * dy
                    < CONNECTION_CLICK_THRESHOLD * CONNECTION_CLICK_THRESHOLD

\* The two ends of connection j are nodes of the list.
Attached(j) == IsLive(connections[j].fromNode) /\ IsLive(connections[j].toNode)

CurveFrom(j) == BottomPoint(NodeOf(connections[j].fromNode))
CurveTo(j) == TopPoint(NodeOf(connections[j].toNode))

\* The middle of the curve of connection j.
CurvePoint(j) ==
    [x |-> (CurveFrom(j).x + CurveTo(j).x) \div 2,
     y |-> (CurveFrom(j).y + CurveTo(j).y) \div 2]

\* getConnectionAtPosition: the first connection in list order whose curve
\* passes the point, 0 when none does.  The pointer keeps off the curves of
\* connections that have an end outside the node list.
getConnectionAtPosition(p) ==
    LET hits == {j \in 1..Len(connections) :
                    /\ Attached(j)
                    /\ isPointNearCurve(p.x, p.y, CurveFrom(j).x, CurveFrom(j).y,
                                        CurveTo(j).x, CurveTo(j).y)}
    IN  IF hits = {} THEN 0 ELSE FirstOf(hits)

\* getConnectionAtPosition reads fromNode.x of every connection up to the
\* first hit: an undefined end throws.
ConnectionScanThrows(p) ==
    \E j \in 1..Len(connections) :
        /\ connections[j].fromNode = Undefined \/ connections[j].toNode = Undefined
        /\ getConnectionAtPosition(p) = 0 \/ j < getConnectionAtPosition(p)

\* The canvas points the pointer is pressed or released at in the editing
\* specification: connection points, node bodies, curves, and empty canvas.
EditPoints ==
    PointerPoints
      \cup {BodyPoint(n) : n \in Range(nodes)}
      \cup {CurvePoint(j) : j \in {k \in 1..Len(connections) : Attached(k)}}

(***************************************************************************)
(* handleMouseDown (no shift key).                                         *)
(***************************************************************************)
ConnectionPointHits(p) ==
    {i \in 1..Len(nodes) :
        \/ isOverConnectionPoint(nodes[i], p.x, p.y, TRUE)
        \/ nodes[i].has_children /\ isOverConnectionPoint(nodes[i], p.x, p.y, FALSE)}

\* The connection-point branch: the first node in list order whose top
\* point, or bottom point when it has children, is under the pointer starts
\* a connection-draw gesture.
MouseDownConnectionPoint(p, isMultiSelect) ==
    /\ ConnectionPointHits(p) # {}
    /\ isDrawingConnection' = TRUE
    /\ connectionStartNode' = Ref(nodes[FirstOf(ConnectionPointHits(p))])
    /\ IF isMultiSelect
       THEN UNCHANGED selection
       ELSE selectedNodes' = {} /\ selectedConnections' = {}
    /\ UNCHANGED <<graph, history, isDragging, isPanning, isRectangleSelecting,
                   draggedNode, errorMessage, nextId, dialogs, currentNode, halted,
                   observed>>

\* The connection branch: select, or with the modifier toggle, the connection.
MouseDownConnection(j, isMultiSelect) ==
    /\ selectedConnections' =
          IF isMultiSelect
          THEN IF j \in selectedConnections
               THEN selectedConnections \ {j} ELSE selectedConnections \cup {j}
          ELSE {j}
    /\ selectedNodes' = IF isMultiSelect THEN selectedNodes ELSE {}
    /\ UNCHANGED <<graph, history, modes, errorMessage, nextId, dialogs, currentNode,
                   halted, observed>>

\* The node branch: start dragging the node, select it, display it.
MouseDownNode(i, isMultiSelect) ==
    /\ isDragging' = TRUE
    /\ draggedNode' = Ref(nodes[i])
    /\ IF isMultiSelect
       THEN /\ selectedNodes' = IF nodes[i].id \in selectedNodes
                                THEN selectedNodes \ {nodes[i].id}
                                ELSE selectedNodes \cup {nodes[i].id}
            /\ UNCHANGED selectedConnections
       ELSE IF nodes[i].id \notin selectedNodes
            THEN selectedNodes' = {nodes[i].id} /\ selectedConnections' = {}
            ELSE UNCHANGED selection
    /\ currentNode' = nodes[i].id
    /\ opDrag' = FALSE
    /\ UNCHANGED <<graph, history, isPanning, isDrawingConnection, isRectangleSelecting,
                   connectionStartNode, errorMessage, nextId, dialogs, halted,
                   opBase, opCount>>

\* The empty-canvas branch: start panning.
MouseDownEmpty(isMultiSelect) ==
    /\ isPanning' = TRUE
    /\ IF isMultiSelect
       THEN UNCHANGED <<selection, currentNode>>
       ELSE selectedNodes' = {} /\ selectedConnections' = {} /\ currentNode' = 0
    /\ UNCHANGED <<graph, history, isDragging, isDrawingConnection, isRectangleSelecting,
                   connectionStartNode, draggedNode, errorMessage, nextId, dialogs,
                   halted, observed>>

handleMouseDown(p, isMultiSelect) ==
    /\ ~deleteModal
    /\ ~buttonDown
    /\ buttonDown' = TRUE
    /\ IF ConnectionPointHits(p) # {}
       THEN MouseDownConnectionPoint(p, isMultiSelect)
       ELSE IF ConnectionScanThrows(p)
       THEN UNCHANGED <<graph, selection, history, modes, errorMessage, nextId, dialogs,
                        currentNode, halted, observed>>
       ELSE IF getConnectionAtPosition(p) # 0
       THEN MouseDownConnection(getConnectionAtPosition(p), isMultiSelect)
       ELSE IF getNodeAtPosition(p) # 0
       THEN MouseDownNode(getNodeAtPosition(p), isMultiSelect)
       ELSE MouseDownEmpty(isMultiSelect)

(***************************************************************************)
(* handleMouseMove while a node is dragged.  The pointer carries the       *)
(* dragged node by d; a dragged reference that is not in the node list     *)
(* moves nothing that is drawn.                                            *)
(***************************************************************************)
DragMoves == {[x |-> 0, y |-> NODE_SPACING]}

\* The nodes whose descendants move with the gesture.
DragCarriers ==
    IF draggedNode.id \in selectedNodes THEN selectedNodes ELSE {draggedNode.id}

DragHangs ==
    \E s \in DragCarriers : NodeOf(s).has_children /\ DescendantLoopHangs(s)

NodesToMove ==
    DragCarriers \cup
        UNION {getDescendantNodes(s) : s \in {c \in DragCarriers : NodeOf(c).has_children}}

MoveNodes(ids, d) ==
    [i \in 1..Len(nodes) |->
        IF nodes[i].id \in ids
        THEN [nodes[i] EXCEPT !.x = @ + d.x, !.y = @ + d.y]
        ELSE nodes[i]]

\* `newX !== this.draggedNode.x` is read after the node was moved to newX:
\* the saveState() it guards does not run.
handleMouseMove(d) ==
    /\ ~deleteModal
    /\ buttonDown
    /\ isDragging
    /\ draggedNode # NullRef
    /\ IsLive(draggedNode.id)
    /\ \A m \in DragCarriers : IsLive(m)
    /\ IF DragHangs
       THEN /\ halted' = TRUE
            /\ nodes' = IF draggedNode.id \in selectedNodes
                        THEN nodes
                        ELSE MoveNodes({draggedNode.id}, d)
            /\ UNCHANGED observed
       ELSE /\ nodes' = MoveNodes(NodesToMove, d)
            /\ IF opDrag
               THEN UNCHANGED observed
               ELSE Counted /\ opDrag' = TRUE
            /\ UNCHANGED halted
    /\ UNCHANGED <<connections, usedNames, selection, history, modes, errorMessage,
                   nextId, dialogs, currentNode, buttonDown>>

(***************************************************************************)
(* handleMouseUp.                                                          *)
(***************************************************************************)
\* The nodes other than the start node whose top connection point is under p.
MouseUpHits(p) ==
    {i \in 1..Len(nodes) :
        /\ nodes[i].id # connectionStartNode.id
        /\ isOverConnectionPoint(nodes[i], p.x, p.y, TRUE)}

\* "Special handling for Root nodes": the message of the rule that rejects
\* start -> node, "" when the connection is accepted.
RootRuleMessage(start, node) ==
    IF node.type = "root" \/ start.type = "root"
    THEN LET rootNode == IF node.type = "root" THEN node ELSE start
             targetNode == IF node.type = "root" THEN start ELSE node
             existingConnections ==
                 {j \in 1..Len(connections) : connections[j].fromNode = rootNode.id}
             hasBlackboard ==
                 \E j \in existingConnections : NodeType(connections[j].toNode) = "blackboard"
             hasNonBlackboard ==
                 \E j \in existingConnections : NodeType(connections[j].toNode) # "blackboard"
         IN  IF targetNode.type = "blackboard"
             THEN IF hasBlackboard THEN "Root node already has a blackboard child" ELSE ""
             ELSE IF hasNonBlackboard
                  THEN "Root node already has a non-blackboard child" ELSE ""
    ELSE ""

\* ConnectionsAfterRelease without the `return` after showErrorMessage.
ConnectionsAfterRelease_NoReturn(start, node, message) ==
    Append(connections, [fromNode |-> start.id, toNode |-> node.id])

\* The connection list handleMouseUp leaves when released over `node`.
ConnectionsAfterRelease(start, node, message) ==
    IF message # ""
    THEN connections
    ELSE Append(connections, [fromNode |-> start.id, toNode |-> node.id])

ResetModes ==
    /\ isDragging' = FALSE
    /\ isPanning' = FALSE
    /\ isDrawingConnection' = FALSE
    /\ connectionStartNode' = NullRef
    /\ draggedNode' = NullRef

handleMouseUp(p) ==
    /\ ~deleteModal
    /\ buttonDown
    /\ buttonDown' = FALSE
    /\ IF isRectangleSelecting
       THEN /\ isRectangleSelecting' = FALSE
            /\ UNCHANGED <<graph, selection, history, isDragging, isPanning,
                           isDrawingConnection, connectionStartNode, draggedNode,
                           errorMessage, nextId, dialogs, currentNode, halted, observed>>
       ELSE IF isDrawingConnection /\ connectionStartNode # NullRef /\ MouseUpHits(p) # {}
            THEN LET node == Ref(nodes[FirstOf(MouseUpHits(p))])
                     message == RootRuleMessage(connectionStartNode, node)
                 IN  /\ connections' =
                            ConnectionsAfterRelease(connectionStartNode, node, message)
                     /\ IF message # ""
                        THEN \* showErrorMessage(...); return
                             /\ errorMessage' = message
                             /\ UNCHANGED <<history, modes, observed>>
                        ELSE /\ undoStack' = saveStateUndo(nodes, connections, usedNames)
                             /\ redoStack' = <<>>
                             /\ ResetModes
                             /\ Counted
                             /\ opDrag' = FALSE
                             /\ UNCHANGED <<errorMessage, isRectangleSelecting>>
                     /\ UNCHANGED <<nodes, usedNames, selection, nextId, dialogs,
                                    currentNode, halted>>
            ELSE /\ ResetModes
                 /\ opDrag' = FALSE
                 /\ UNCHANGED <<graph, selection, history, isRectangleSelecting,
                                errorMessage, nextId, dialogs, currentNode, halted,
                                opBase, opCount>>

\* setTimeout(..., 3000) of showErrorMessage removes the message element.
ErrorTimeout ==
    /\ errorMessage # ""
    /\ errorMessage' = ""
    /\ UNCHANGED <<graph, selection, history, modes, nextId, dialogs, currentNode,
                   halted, buttonDown, observed>>

(***************************************************************************)
(* Deleting the selection: deleteSelectedNodes, then                       *)
(* deleteSelectedConnections, each with its own saveState().               *)
(***************************************************************************)
\* The members of seq at the positions of keep, in order.
KeepSeq(seq, keep) ==
    LET F[i \in 0..Len(seq)] ==
            IF i = 0 THEN <<>>
            ELSE IF i \in keep THEN Append(F[i - 1], seq[i]) ELSE F[i - 1]
    IN  F[Len(seq)]

\* The position in KeepSeq(seq, keep) of the member at position j.
NewPos(keep, j) == Cardinality({k \in keep : k <= j})

\* deleteSelectedNodes without the usedNames.delete of the selected names.
NamesAfterDelete_Kept(used, names) == used

\* usedNames after deleteSelectedNodes deleted the names of the selected nodes.
NamesAfterDelete(used, names) == used \ names

\* The canvas after `deleteSelectedNodes(); deleteSelectedConnections();`.
\* draw() ends deleteSelectedNodes: when it throws, the second call and
\* whatever follows it in the caller are skipped.
deleteSelected ==
    LET nodesRun == selectedNodes # {}
        names == {nodes[i].customName :
                     i \in {k \in 1..Len(nodes) : nodes[k].id \in selectedNodes}}
        keep1 == {j \in 1..Len(connections) :
                     /\ connections[j].fromNode \notin selectedNodes
                     /\ connections[j].toNode \notin selectedNodes}
        nodes1 == SelectSeq(nodes, LAMBDA n : n.id \notin selectedNodes)
        conns1 == KeepSeq(connections, keep1)
        used1 == IF nodesRun THEN NamesAfterDelete(usedNames, names) ELSE usedNames
        undo1 == IF nodesRun
                 THEN PushCapped(undoStack, Snapshot(nodes, connections, usedNames))
                 ELSE undoStack
        sel1 == {NewPos(keep1, j) : j \in selectedConnections \cap keep1}
        threw1 == nodesRun /\ DrawThrows(nodes1, conns1)
        connsRun == ~threw1 /\ selectedConnections # {}
        conns2 == IF connsRun
                  THEN KeepSeq(conns1, (1..Len(conns1)) \ sel1)
                  ELSE conns1
        undo2 == IF connsRun
                 THEN PushCapped(undo1, Snapshot(nodes1, conns1, used1))
                 ELSE undo1
    IN  [nodes |-> nodes1,
         connections |-> conns2,
         usedNames |-> used1,
         undoStack |-> undo2,
         redoStack |-> IF nodesRun \/ connsRun THEN <<>> ELSE redoStack,
         selectedConnections |-> IF connsRun THEN {} ELSE sel1,
         currentNode |-> IF nodesRun THEN 0 ELSE currentNode,
         ran |-> nodesRun \/ connsRun,
         threw |-> threw1 \/ (connsRun /\ DrawThrows(nodes1, conns2))]

Deleted(r) ==
    /\ nodes' = r.nodes
    /\ connections' = r.connections
    /\ usedNames' = r.usedNames
    /\ undoStack' = r.undoStack
    /\ redoStack' = r.redoStack
    /\ selectedNodes' = {}
    /\ selectedConnections' = r.selectedConnections
    /\ currentNode' = r.currentNode
    /\ IF r.ran THEN Counted ELSE UNCHANGED <<opBase, opCount>>
    /\ UNCHANGED <<modes, errorMessage, nextId, pendingAdds, halted, buttonDown, opDrag>>

\* handleKeyDown, key 'x', deleting without looking at skipDeleteConfirmation.
KeyDelete_Ungated ==
    /\ ~deleteModal
    /\ selectedNodes # {} \/ selectedConnections # {}
    /\ Deleted(deleteSelected) /\ UNCHANGED <<skipDeleteConfirmation, deleteModal>>

\* handleKeyDown, key 'x'.
KeyDelete ==
    /\ ~deleteModal
    /\ selectedNodes # {} \/ selectedConnections # {}
    /\ IF skipDeleteConfirmation
       THEN Deleted(deleteSelected) /\ UNCHANGED <<skipDeleteConfirmation, deleteModal>>
       ELSE deleteModal' = TRUE
            /\ UNCHANGED <<graph, selection, history, modes, errorMessage, nextId,
                           pendingAdds, skipDeleteConfirmation, currentNode, halted, buttonDown,
                           observed>>

\* The Yes button of the delete-confirmation modal.
ModalYes(dontAskAgain) ==
    /\ deleteModal
    /\ ~buttonDown
    /\ skipDeleteConfirmation' = (skipDeleteConfirmation \/ dontAskAgain)
    /\ Deleted(deleteSelected)
    /\ deleteModal' = deleteSelected.threw

\* The No button.
ModalNo ==
    /\ deleteModal
    /\ ~buttonDown
    /\ deleteModal' = FALSE
    /\ UNCHANGED <<graph, selection, history, modes, errorMessage, nextId,
                   pendingAdds, skipDeleteConfirmation, currentNode, halted, buttonDown, observed>>

\* The button is released over the modal: the canvas gets no mouseup.
ReleaseOffCanvas ==
    /\ deleteModal
    /\ buttonDown
    /\ buttonDown' = FALSE
    /\ UNCHANGED <<graph, selection, history, modes, errorMessage, nextId, dialogs,
                   currentNode, halted, observed>>

(***************************************************************************)
(* handleKeyDown, key 'd': duplicate the selected nodes and the selected   *)
(* connections between them.  Duplicates are made in list order.           *)
(***************************************************************************)
\* The name the duplicate of a node named `name` gets.
CopyName(name, used) ==
    IF (name \o "_copy") \notin used
    THEN name \o "_copy"
    ELSE LET free == {c \in 1..(Cardinality(used) + 1) :
                         (name \o "_copy_" \o ToString(c)) \notin used}
         IN  name \o "_copy_" \o ToString(FirstOf(free))

SelectedPositions == {i \in 1..Len(nodes) : nodes[i].id \in selectedNodes}

\* The id of the duplicate of the node at position i.
DuplicateId(i) == nextId + Cardinality({k \in SelectedPositions : k < i})

\* The node list and the used names after the first pass, up to position i.
RECURSIVE DuplicatePass(_)
DuplicatePass(i) ==
    IF i = 0
    THEN [nodes |-> nodes, usedNames |-> usedNames]
    ELSE LET before == DuplicatePass(i - 1)
         IN  IF i \notin SelectedPositions
             THEN before
             ELSE LET newName == IF nodes[i].customName # ""
                                 THEN CopyName(nodes[i].customName, before.usedNames)
                                 ELSE ""
                      duplicate == [nodes[i] EXCEPT !.id = DuplicateId(i),
                                                    !.x = @ + DUPLICATE_OFFSET,
                                                    !.customName = newName]
                  IN  [nodes |-> Append(before.nodes, duplicate),
                       usedNames |-> IF newName # ""
                                     THEN before.usedNames \cup {newName}
                                     ELSE before.usedNames]

\* The selected connections whose two ends are selected nodes.
DuplicatedConnections ==
    {j \in selectedConnections :
        /\ connections[j].fromNode \in selectedNodes
        /\ connections[j].toNode \in selectedNodes}

DuplicateOf(id) == DuplicateId(CHOOSE i \in SelectedPositions : nodes[i].id = id)

KeyDuplicate ==
    /\ selectedNodes # {}
    /\ nodes' = DuplicatePass(Len(nodes)).nodes
    /\ usedNames' = DuplicatePass(Len(nodes)).usedNames
    /\ connections' =
          connections \o
          [k \in 1..Cardinality(DuplicatedConnections) |->
              LET j == CHOOSE c \in DuplicatedConnections :
                           Cardinality({b \in DuplicatedConnections : b <= c}) = k
              IN  [fromNode |-> DuplicateOf(connections[j].fromNode),
                   toNode |-> DuplicateOf(connections[j].toNode)]]
    /\ selectedNodes' = {DuplicateId(i) : i \in SelectedPositions}
    /\ selectedConnections' = {}
    /\ nextId' = nextId + Cardinality(selectedNodes)
    /\ Counted
    /\ UNCHANGED <<history, modes, errorMessage, dialogs, currentNode, halted, buttonDown, opDrag>>

(***************************************************************************)
(* Edits from the right column, on the node it displays.                   *)
(***************************************************************************)
BuiltInNames == {NodeTypes[i].name : i \in 1..Len(NodeTypes)}

\* The message of the check that refuses the name, "" when it is accepted.
CustomNameMessage(node, customName) ==
    IF customName = ""
    THEN ""
    ELSE IF node.name # "CustomAction" /\ customName \in BuiltInNames
    THEN "This name conflicts with a built-in node type"
    ELSE IF customName \in usedNames /\ customName # node.customName
    THEN "This name is already in use"
    ELSE ""

\* updateNodeCustomName: the checks, the change, and saveState() after it.
updateNodeCustomName(nodeId, customName) ==
    /\ ~deleteModal
    /\ IsLive(nodeId)
    /\ LET node == NodeOf(nodeId)
           message == CustomNameMessage(node, customName)
           names == (usedNames \ {node.customName}) \cup
                        (IF customName = "" THEN {} ELSE {customName})
           renamed == [i \in 1..Len(nodes) |->
                          IF nodes[i].id = nodeId
                          THEN [nodes[i] EXCEPT !.customName = customName]
                          ELSE nodes[i]]
       IN  IF message # ""
           THEN /\ errorMessage' = message
                /\ UNCHANGED <<graph, history, observed>>
           ELSE /\ nodes' = renamed
                /\ usedNames' = names
                /\ undoStack' = PushCapped(undoStack, Snapshot(renamed, connections, names))
                /\ redoStack' = <<>>
                /\ Counted
                /\ UNCHANGED <<connections, errorMessage, opDrag>>
    /\ UNCHANGED <<selection, modes, nextId, dialogs, currentNode, halted, buttonDown>>

\* updateNodeNTimes: saveState(), then the change.
updateNodeNTimes(nodeId, n_times) ==
    /\ ~deleteModal
    /\ IsLive(nodeId)
    /\ NodeOf(nodeId).name = "Repeat"
    /\ undoStack' = saveStateUndo(nodes, connections, usedNames)
    /\ redoStack' = <<>>
    /\ nodes' = [i \in 1..Len(nodes) |->
                    IF nodes[i].id = nodeId
                    THEN [nodes[i] EXCEPT !.n_times = n_times]
                    ELSE nodes[i]]
    /\ Counted
    /\ UNCHANGED <<connections, usedNames, selection, modes, errorMessage, nextId,
                   dialogs, currentNode, halted, buttonDown, opDrag>>

\* updateNodeChildKey: saveState(), then the change, on a History node.
updateNodeChildKey(nodeId, child_key) ==
    /\ ~deleteModal
    /\ IsLive(nodeId)
    /\ NodeOf(nodeId).name = "History"
    /\ undoStack' = saveStateUndo(nodes, connections, usedNames)
    /\ redoStack' = <<>>
    /\ nodes' = [i \in 1..Len(nodes) |->
                    IF nodes[i].id = nodeId
                    THEN [nodes[i] EXCEPT !.child_key = child_key]
                    ELSE nodes[i]]
    /\ Counted
    /\ UNCHANGED <<connections, usedNames, selection, modes, errorMessage, nextId,
                   dialogs, currentNode, halted, buttonDown, opDrag>>

(***************************************************************************)
(* handleDoubleClick: collapse or expand the node under the pointer.  The  *)
(* event follows two clicks at the point, which displayed the node.        *)
(***************************************************************************)
handleDoubleClick(p) ==
    /\ ~deleteModal
    /\ ~buttonDown
    /\ getNodeAtPosition(p) # 0
    /\ currentNode = nodes[getNodeAtPosition(p)].id
    /\ nodes' = [i \in 1..Len(nodes) |->
                    IF i = getNodeAtPosition(p) /\ nodes[i].has_children
                    THEN [nodes[i] EXCEPT !.collapsed = ~@]
                    ELSE nodes[i]]
    /\ halted' = IF nodes[getNodeAtPosition(p)].has_children
                 THEN DrawThrows(nodes', connections)
                 ELSE halted
    /\ UNCHANGED <<connections, usedNames, selection, history, modes, errorMessage,
                   nextId, dialogs, currentNode, buttonDown, observed>>

(***************************************************************************)
(* Export Canvas and Export Trees: both menu handlers build the trees map  *)
(* with the same statements.                                               *)
(***************************************************************************)
\* The children left in the order of getNodeChildren.
SortByX_Unsorted(ids) == ids

\* children.sort((a, b) => a.x - b.x) on a sequence of node ids: ascending
\* x, nodes of equal x in their order of arrival.
SortByX(ids) ==
    LET F[k \in 0..Len(ids)] ==
            IF k = 0
            THEN <<>>
            ELSE LET done == F[k - 1]
                     at == Cardinality({q \in 1..Len(done) :
                                           NodeOf(done[q]).x <= NodeOf(ids[k]).x})
                 IN  SubSeq(done, 1, at) \o <<ids[k]>> \o SubSeq(done, at + 1, Len(done))
    IN  F[Len(ids)]

\* getNodeChildren(node) as the export reads it: the toNode of every
\* connection from the node, in list order.
ChildrenInOrder(id) ==
    LET from == {j \in 1..Len(connections) : connections[j].fromNode = id}
        picked == KeepSeq(connections, from)
    IN  [k \in 1..Len(picked) |-> picked[k].toNode]

\* The children createTreeStructure descends into.
ExportedChildren(id) ==
    SortByX(SelectSeq(ChildrenInOrder(id), LAMBDA c : NodeType(c) # "blackboard"))

\* nodeData.blackboard of a root: the name of its first blackboard child,
\* 'default' when that has no name, null when there is none.
BlackboardOf(id) ==
    LET boards == SelectSeq(ChildrenInOrder(id), LAMBDA c : NodeType(c) = "blackboard")
    IN  IF Len(boards) = 0
        THEN "null"
        ELSE IF NodeOf(boards[1]).customName # ""
        THEN NodeOf(boards[1]).customName
        ELSE "default"

\* The config names in the order of the catalog, which is the order of the
\* keys of configValues.
ConfigNames == <<"cfgA", "cfgB">>

\* nodesWithConfigs: the positions of the nodes with a non-empty configs
\* list (configValues is an object on every node here).
NodesWithConfigs == {i \in 1..Len(nodes) : nodes[i].configs # {}}

\* One (node, config name) pair for every entry of the configValues of a
\* node with configs: each gets a random id.
ConfigSlots ==
    {<<i, c>> : i \in NodesWithConfigs, c \in 1..Len(ConfigNames)}
        \cap {sl \in (1..Len(nodes)) \X (1..Len(ConfigNames)) :
                ConfigNames[sl[2]] \in DOMAIN nodes[sl[1]].configValues}

\* Math.random().toString(36).substr(2, 9), for every slot.
ConfigIdDraws == [ConfigSlots -> 1..MaxConfigIds]

\* The table written from the slots of the nodes at the positions `from`.
ConfigsTable(draw, from) ==
    [key \in {draw[sl] : sl \in {q \in ConfigSlots : q[1] \in from}} |->
        LET writers == {q \in ConfigSlots : q[1] \in from /\ draw[q] = key}
            last == CHOOSE q \in writers :
                        \A r \in writers : r[1] < q[1] \/ (r[1] = q[1] /\ r[2] <= q[2])
        IN  [type |-> ConfigNames[last[2]]]]

\* The table of the slots of the first node with configs only.
configsMap_FirstNode(draw) ==
    ConfigsTable(draw, {i \in NodesWithConfigs : \A k \in NodesWithConfigs : i <= k})

\* configsMap: configId -> {type, values}; an id drawn twice keeps the entry
\* written last.
configsMap(draw) ==
    ConfigsTable(draw, NodesWithConfigs)

\* nodeConfigMap: node id -> (config name -> config id), for the nodes with
\* configs; of two nodes with one id the later one stays.
nodeConfigMap(draw) ==
    [id \in {nodes[i].id : i \in NodesWithConfigs} |->
        LET i == CHOOSE k \in NodesWithConfigs :
                     /\ nodes[k].id = id
                     /\ \A q \in NodesWithConfigs : nodes[q].id = id => q <= k
        IN  [c \in DOMAIN nodes[i].configValues |->
                draw[<<i, CHOOSE k \in 1..Len(ConfigNames) : ConfigNames[k] = c>>]]]

\* createTreeStructure: an absent field is "" or 0; the children array is
\* absent, here empty, when the node has no child to descend into.
RECURSIVE createTreeStructure(_, _, _)
createTreeStructure(id, fuel, ncm) ==
    LET node == NodeOf(id)
        children == ExportedChildren(id)
    IN  [category |-> node.type,
         type |-> IF node.name = "History" THEN "BlackboardHistory" ELSE node.name,
         custom_name |-> node.customName,
         n_times |-> IF node.name = "Repeat" THEN node.n_times ELSE 0,
         child_key |-> IF node.name = "History" THEN node.child_key ELSE "",
         blackboard |-> IF node.type = "root" THEN BlackboardOf(id) ELSE "",
         configs |-> IF id \in DOMAIN ncm THEN ncm[id] ELSE <<>>,
         children |-> IF fuel = 0
                      THEN <<>>
                      ELSE [k \in 1..Len(children) |->
                               createTreeStructure(children[k], fuel - 1, ncm)]]

\* The recursion does not end when it meets a node again below itself: the
\* handler catches the RangeError and writes no file.
RECURSIVE TreeOverflows(_, _)
TreeOverflows(id, fuel) ==
    IF fuel = 0
    THEN TRUE
    ELSE \E k \in 1..Len(ExportedChildren(id)) :
            TreeOverflows(ExportedChildren(id)[k], fuel - 1)

\* The root nodes in list order.
RootNodes == SelectSeq(nodes, LAMBDA n : n.type = "root")

\* rootNode.customName || `tree_${index + 1}`
TreeName(k) ==
    IF RootNodes[k].customName # ""
    THEN RootNodes[k].customName
    ELSE "tree_" \o ToString(k)

\* treesMap: a later root of the same name replaces the earlier entry.
TreesMap(ncm) ==
    [name \in {TreeName(k) : k \in 1..Len(RootNodes)} |->
        LET last == CHOOSE k \in 1..Len(RootNodes) :
                        /\ TreeName(k) = name
                        /\ \A q \in 1..Len(RootNodes) : TreeName(q) = name => q <= k
        IN  createTreeStructure(RootNodes[last].id, Len(nodes), ncm)]

ExportThrows ==
    \E k \in 1..Len(RootNodes) : TreeOverflows(RootNodes[k].id, Len(nodes) + 1)

\* The export of a canvas whose connections all join nodes of the list.
Export ==
    /\ ~deleteModal
    /\ \A j \in 1..Len(connections) : Attached(j)
    /\ \E draw \in ConfigIdDraws :
          /\ exported' = IF ExportThrows THEN exported ELSE TreesMap(nodeConfigMap(draw))
          /\ exportedConfigs' = IF ExportThrows THEN exportedConfigs ELSE configsMap(draw)
    /\ UNCHANGED <<graph, selection, history, modes, errorMessage, nextId, dialogs,
                   currentNode, buttonDown, halted, observed, treeFile, gate,
                   functionTemplates, functionButtons, rectangle>>

(***************************************************************************)
(* addNode: saveState() at the call, the node after the awaited catalog.   *)
(***************************************************************************)
\* Where addNode puts a node: the middle of the canvas element.
ADD_X == NODE_SPACING * 2
ADD_Y == NODE_SPACING * 2

AddNodeCall(t) ==
    /\ ~deleteModal
    /\ undoStack' = saveStateUndo(nodes, connections, usedNames)
    /\ redoStack' = <<>>
    /\ pendingAdds' = Append(pendingAdds, t)
    /\ UNCHANGED <<graph, selection, modes, errorMessage, nextId,
                   skipDeleteConfirmation, deleteModal, currentNode, halted, buttonDown, observed>>

AddNodeResume ==
    /\ Len(pendingAdds) > 0
    /\ nodes' = Append(nodes, NewNode(nextId, NodeTypes[Head(pendingAdds)], ADD_X, ADD_Y))
    /\ nextId' = nextId + 1
    /\ pendingAdds' = Tail(pendingAdds)
    /\ Counted
    /\ UNCHANGED <<connections, usedNames, selection, history, modes, errorMessage,
                   skipDeleteConfirmation, deleteModal, currentNode, halted, buttonDown, opDrag>>

(***************************************************************************)
(* Tree documents: serializeTree writes one, loadTree replaces the canvas  *)
(* by one, addTree puts one next to what the canvas holds.  The document   *)
(* travels as JSON text, which keeps strings, numbers and booleans and     *)
(* drops undefined fields.                                                 *)
(***************************************************************************)
\* serializeTree: the logical nodes, the connections as id pairs, and the
\* display entries.  child_key and collapsed are not among the fields written.
serializeTree(ns, cs) ==
    [logical |->
        [nodes |-> [i \in 1..Len(ns) |->
                      [id |-> ns[i].id, type |-> ns[i].type, name |-> ns[i].name,
                       customName |-> ns[i].customName,
                       has_children |-> ns[i].has_children,
                       n_times |-> ns[i].n_times,
                       configs |-> ns[i].configs,
                       configValues |-> ns[i].configValues]],
         connections |-> [j \in 1..Len(cs) |->
                            [fromNodeId |-> ObjId(cs[j].fromNode),
                             toNodeId |-> ObjId(cs[j].toNode)]]],
     display |-> [nodes |-> [i \in 1..Len(ns) |->
                               [id |-> ns[i].id, x |-> ns[i].x, y |-> ns[i].y]]]]

\* conn.fromNode.id of an undefined end throws.
SerializeThrows(cs) ==
    \E j \in 1..Len(cs) : cs[j].fromNode = Undefined \/ cs[j].toNode = Undefined

\* The logical nodes that become canvas nodes: those with a display entry,
\* a category and a type name.
Loadable(doc) ==
    {i \in 1..Len(doc.logical.nodes) :
        /\ \E d \in 1..Len(doc.display.nodes) :
              doc.display.nodes[d].id = doc.logical.nodes[i].id
        /\ doc.logical.nodes[i].type # ""
        /\ doc.logical.nodes[i].name # ""}

\* display.nodes.find(n => n.id === logicalNode.id)
DisplayOf(doc, id) ==
    doc.display.nodes[FirstOf({d \in 1..Len(doc.display.nodes) :
                                  doc.display.nodes[d].id = id})]

\* The fresh id of the node made from logical node i.
LoadedId(doc, i, firstId) == firstId + Cardinality({k \in Loadable(doc) : k < i})

\* The node objects made from the document, moved by (dx, dy).
LoadedNodes(doc, firstId, dx, dy) ==
    LET made == [i \in 1..Len(doc.logical.nodes) |->
                    IF i \in Loadable(doc)
                    THEN LET ln == doc.logical.nodes[i]
                             dn == DisplayOf(doc, ln.id)
                         IN  [id |-> LoadedId(doc, i, firstId),
                              type |-> ln.type, name |-> ln.name,
                              customName |-> ln.customName,
                              x |-> dn.x + dx, y |-> dn.y + dy,
                              has_children |-> ln.has_children,
                              n_times |-> ln.n_times,
                              child_key |-> "", collapsed |-> FALSE,
                              configs |-> ln.configs,
                              configValues |-> ln.configValues]
                    ELSE NewNode(0, NodeTypes[1], 0, 0)]
    IN  KeepSeq(made, Loadable(doc))

\* nodeMap.get(oldId): the node made last from a logical node of that id.
LoadedNodeMapGet(doc, oldId, firstId) ==
    LET made == {i \in Loadable(doc) : doc.logical.nodes[i].id = oldId}
    IN  IF made = {}
        THEN Undefined
        ELSE LoadedId(doc, CHOOSE i \in made : \A k \in made : k <= i, firstId)

\* The connection list loadTree builds from the first k connections of the
\* document: a connection is skipped when an end is missing, when its target
\* already has a parent, or when its source is a decorator that has a child.
RECURSIVE LoadedConnections(_, _, _)
LoadedConnections(doc, firstId, k) ==
    IF k = 0
    THEN <<>>
    ELSE LET before == LoadedConnections(doc, firstId, k - 1)
             conn == doc.logical.connections[k]
             fromNode == LoadedNodeMapGet(doc, conn.fromNodeId, firstId)
             toNode == LoadedNodeMapGet(doc, conn.toNodeId, firstId)
             made == LoadedNodes(doc, firstId, 0, 0)
             fromType == IF fromNode = Undefined THEN "none"
                         ELSE (CHOOSE n \in Range(made) : n.id = fromNode).type
         IN  IF fromNode = Undefined \/ toNode = Undefined
             THEN before
             ELSE IF \E j \in 1..Len(before) : before[j].toNode = toNode
             THEN before
             ELSE IF fromType = "decorator"
                     /\ \E j \in 1..Len(before) : before[j].fromNode = fromNode
             THEN before
             ELSE Append(before, [fromNode |-> fromNode, toNode |-> toNode])

\* The canvas loadTree leaves; draw() ends it and may throw.
loadTree(doc, firstId) ==
    LET ns == LoadedNodes(doc, firstId, 0, 0)
        cs == LoadedConnections(doc, firstId, Len(doc.logical.connections))
    IN  [nodes |-> ns,
         connections |-> cs,
         usedNames |-> {ns[i].customName : i \in 1..Len(ns)} \ {""},
         threw |-> DrawThrows(ns, cs)]

\* findSuitablePosition: the offset that puts the bounding box of the new
\* nodes to the right of the bounding box of the canvas nodes, 50 apart;
\* vertically centred on it, or below it when the centred boxes overlap.
MinOf(S) == CHOOSE v \in S : \A w \in S : v <= w
MaxOf(S) == CHOOSE v \in S : \A w \in S : w <= v

findSuitablePosition(ns, temp) ==
    IF Len(ns) = 0 \/ Len(temp) = 0
    THEN [offsetX |-> 0, offsetY |-> 0]
    ELSE LET minY == MinOf({n.y : n \in Range(ns)})
             maxX == MaxOf({n.x + calculateNodeWidth(n) : n \in Range(ns)})
             maxY == MaxOf({n.y + NODE_HEIGHT : n \in Range(ns)})
             newMinX == MinOf({n.x : n \in Range(temp)})
             newMinY == MinOf({n.y : n \in Range(temp)})
             newMaxY == MaxOf({n.y + NODE_HEIGHT : n \in Range(temp)})
             padding == 50
             centred2 == (maxY + minY) - (newMaxY + newMinY)
             overlap == /\ 2 * newMinY + centred2 <= 2 * maxY
                        /\ 2 * newMaxY + centred2 >= 2 * minY
         IN  [offsetX |-> maxX - newMinX + padding,
              offsetY |-> IF overlap
                          THEN maxY - newMinY + padding
                          ELSE centred2 \div 2]

\* The canvas addTree leaves: the nodes of the document after the canvas
\* nodes, every connection of the document whose two ends were made.  No
\* name is entered into usedNames and no connection rule is applied.
addTree(ns, cs, doc, firstId) ==
    LET offset == findSuitablePosition(ns, LoadedNodes(doc, firstId, 0, 0))
        temp == LoadedNodes(doc, firstId, offset.offsetX, offset.offsetY)
        ends == [k \in 1..Len(doc.logical.connections) |->
                    [fromNode |-> LoadedNodeMapGet(doc, doc.logical.connections[k].fromNodeId,
                                                   firstId),
                     toNode |-> LoadedNodeMapGet(doc, doc.logical.connections[k].toNodeId,
                                                 firstId)]]
        added == SelectSeq(ends, LAMBDA c : c.fromNode # Undefined /\ c.toNode # Undefined)
    IN  [nodes |-> ns \o temp,
         connections |-> cs \o added,
         threw |-> DrawThrows(ns \o temp, cs \o added)]

\* save(): the document goes to the file the save dialog names.
Save ==
    /\ ~deleteModal
    /\ ~SerializeThrows(connections)
    /\ treeFile' = serializeTree(nodes, connections)
    /\ UNCHANGED <<graph, selection, history, modes, errorMessage, nextId, dialogs,
                   currentNode, buttonDown, halted, observed, exported, exportedConfigs,
                   gate, functionTemplates, functionButtons, rectangle>>

\* open(): loadTree on the document of the file the open dialog names.  The
\* history is left as it is.  When the closing draw() throws, the session is
\* not followed further.
OpenFile ==
    /\ LET loaded == loadTree(treeFile, nextId)
       IN  /\ nodes' = loaded.nodes
           /\ connections' = loaded.connections
           /\ usedNames' = loaded.usedNames
           /\ halted' = loaded.threw
           /\ nextId' = nextId + Len(loaded.nodes)
    /\ selectedNodes' = {}
    /\ selectedConnections' = {}
    /\ currentNode' = 0
    /\ UNCHANGED <<history, modes, errorMessage, dialogs, buttonDown, observed>>

Open ==
    /\ ~deleteModal
    /\ OpenFile
    /\ UNCHANGED outside

\* addTreeFromFile(): addTree on the document of the file.
AddTreeFromFile ==
    /\ ~deleteModal
    /\ LET added == addTree(nodes, connections, treeFile, nextId)
       IN  /\ nodes' = added.nodes
           /\ connections' = added.connections
           /\ halted' = added.threw
           /\ nextId' = nextId + (Len(added.nodes) - Len(nodes))
    /\ UNCHANGED <<usedNames, selection, history, modes, errorMessage, dialogs,
                   currentNode, buttonDown, observed, outside>>

(***************************************************************************)
(* Function templates: the context menu records the subtree of a named     *)
(* root, a function button instantiates it.                                *)
(***************************************************************************)
\* All children of a node in connection order.
TemplateChildren_All(id) == ChildrenInOrder(id)

\* The children recordSubtree descends into: those that are no blackboards.
TemplateChildren(id) ==
    SelectSeq(ChildrenInOrder(id), LAMBDA c : NodeType(c) # "blackboard")

\* traverse(node) of recordSubtree: a node that was not visited is copied,
\* then every child connection is recorded and the child traversed.
RECURSIVE traverse(_, _)
RECURSIVE traverseChildren(_, _, _)
traverse(id, acc) ==
    IF id \in acc.visited
    THEN acc
    ELSE traverseChildren(id, 1, [nodes |-> Append(acc.nodes, NodeOf(id)),
                                  connections |-> acc.connections,
                                  visited |-> acc.visited \cup {id}])
traverseChildren(id, k, acc) ==
    IF k > Len(TemplateChildren(id))
    THEN acc
    ELSE LET child == TemplateChildren(id)[k]
         IN  traverseChildren(id, k + 1,
                 traverse(child, [acc EXCEPT !.connections =
                                     Append(@, [fromNode |-> id, toNode |-> child])]))

recordSubtree(rootId) ==
    LET done == traverse(rootId, [nodes |-> <<>>, connections |-> <<>>, visited |-> {}])
    IN  [nodes |-> done.nodes, connections |-> done.connections, rootId |-> rootId]

\* idToNodeMap.get(id): the id of the clone made last for a template node of
\* that id, Undefined when there is none.
ClonedId(template, id, firstId) ==
    LET made == {k \in 1..Len(template.nodes) : template.nodes[k].id = id}
    IN  IF made = {}
        THEN Undefined
        ELSE firstId + (CHOOSE k \in made : \A q \in made : q <= k) - 1

\* cloneSubtree: the new nodes and the new connections.
cloneSubtree(template, firstId) ==
    LET wired == {j \in 1..Len(template.connections) :
                     /\ ClonedId(template, template.connections[j].fromNode, firstId) # Undefined
                     /\ ClonedId(template, template.connections[j].toNode, firstId) # Undefined}
        kept == KeepSeq(template.connections, wired)
    IN  [nodes |-> [k \in 1..Len(template.nodes) |->
                       [template.nodes[k] EXCEPT !.id = firstId + k - 1,
                                                 !.customName = "",
                                                 !.x = @ + 50,
                                                 !.y = @ + 50]],
         connections |-> [j \in 1..Len(kept) |->
                             [fromNode |-> ClonedId(template, kept[j].fromNode, firstId),
                              toNode |-> ClonedId(template, kept[j].toNode, firstId)]]]

\* addFunctionButton of the ribbon: a button whose name or node id is
\* already on the ribbon is refused, any other is appended.
addFunctionButton(buttons, name, nodeId) ==
    IF \E k \in 1..Len(buttons) : buttons[k].name = name \/ buttons[k].nodeId = nodeId
    THEN buttons
    ELSE Append(buttons, [name |-> name, nodeId |-> nodeId])

\* handleContextMenu at a node, then the option Create Function: the node
\* is selected if it was not, and the subtree of a selected root that bears
\* a name is recorded under the root's id; then the ribbon is asked for a
\* button of that name and id.
CreateFunction(p) ==
    /\ ~deleteModal
    /\ ~buttonDown
    /\ getNodeAtPosition(p) # 0
    /\ \A m \in selectedNodes : IsLive(m)
    /\ \A j \in 1..Len(connections) : Attached(j)
    /\ LET clicked == nodes[getNodeAtPosition(p)].id
           selected == IF clicked \in selectedNodes THEN selectedNodes ELSE {clicked}
           roots == {m \in selected : NodeOf(m).type = "root"}
       IN  /\ selectedNodes' = selected
           /\ selectedConnections' =
                 IF clicked \in selectedNodes THEN selectedConnections ELSE {}
           /\ currentNode' = IF clicked \in selectedNodes THEN currentNode ELSE clicked
           /\ roots # {}
           /\ \E rootNode \in roots :
                 IF NodeOf(rootNode).customName = ""
                 THEN /\ errorMessage' = "Please name the root node before creating a function"
                      /\ UNCHANGED <<functionTemplates, functionButtons>>
                 ELSE /\ functionTemplates' =
                            [t \in DOMAIN functionTemplates \cup {rootNode} |->
                                IF t = rootNode
                                THEN recordSubtree(rootNode)
                                ELSE functionTemplates[t]]
                      /\ functionButtons' =
                            addFunctionButton(functionButtons,
                                              NodeOf(rootNode).customName, rootNode)
                      /\ UNCHANGED errorMessage
    /\ UNCHANGED <<graph, history, modes, nextId, dialogs, halted, buttonDown, observed,
                   treeFile, exported, exportedConfigs, gate, rectangle>>

\* updateNodeConfigValue for a field whose name does not end in "_key":
\* saveState(), then the value is written into the configValues object of
\* the node.  recordSubtree copied a node with {...node}, so the copy in a
\* template holds the same configValues object and shows the value too.  (A
\* node object and a copy with its id part only when restoreState replaces
\* the node list; the specifications that edit config values do not undo.)
updateNodeConfigValue(nodeId, configName, value) ==
    /\ ~deleteModal
    /\ undoStack' = saveStateUndo(nodes, connections, usedNames)
    /\ redoStack' = <<>>
    /\ LET written(n) ==
               IF n.id = nodeId
               THEN [n EXCEPT !.configValues =
                       [c \in DOMAIN n.configValues \cup {configName} |->
                           IF c = configName THEN value ELSE n.configValues[c]]]
               ELSE n
       IN  /\ nodes' = [i \in 1..Len(nodes) |-> written(nodes[i])]
           /\ functionTemplates' =
                 [t \in DOMAIN functionTemplates |->
                     [functionTemplates[t] EXCEPT !.nodes =
                         [k \in 1..Len(functionTemplates[t].nodes) |->
                             written(functionTemplates[t].nodes[k])]]]
    /\ IF IsLive(nodeId) THEN Counted ELSE UNCHANGED <<opBase, opCount>>
    /\ UNCHANGED <<connections, usedNames, selection, modes, errorMessage, nextId, dialogs,
                   currentNode, halted, buttonDown, opDrag, treeFile, exported,
                   exportedConfigs, gate, functionButtons, rectangle>>

\* The cross of a function button, then Yes: the first button of that node
\* id leaves the ribbon and deleteFunctionTemplate removes the template.
DeleteFunction(nodeId) ==
    /\ \E k \in 1..Len(functionButtons) : functionButtons[k].nodeId = nodeId
    /\ LET index == CHOOSE k \in 1..Len(functionButtons) :
                        /\ functionButtons[k].nodeId = nodeId
                        /\ \A j \in 1..(k - 1) : functionButtons[j].nodeId # nodeId
       IN  functionButtons' = [k \in 1..(Len(functionButtons) - 1) |->
                                  IF k < index THEN functionButtons[k]
                                  ELSE functionButtons[k + 1]]
    /\ functionTemplates' = [t \in DOMAIN functionTemplates \ {nodeId} |->
                                functionTemplates[t]]
    /\ UNCHANGED <<graph, selection, history, modes, errorMessage, nextId, dialogs,
                   currentNode, halted, buttonDown, observed, treeFile, exported,
                   exportedConfigs, gate, rectangle>>

\* instantiateFunction of a function button: the clone of the template is
\* added and its root selected and displayed.  No checkpoint is taken.
instantiateFunction(templateId) ==
    /\ ~deleteModal
    /\ templateId \in DOMAIN functionTemplates
    /\ LET made == cloneSubtree(functionTemplates[templateId], nextId)
       IN  /\ nodes' = nodes \o made.nodes
           /\ connections' = connections \o made.connections
           /\ selectedNodes' = {made.nodes[1].id}
           /\ currentNode' = made.nodes[1].id
           /\ nextId' = nextId + Len(made.nodes)
           /\ halted' = DrawThrows(nodes', connections')
    /\ Counted
    /\ UNCHANGED <<usedNames, selectedConnections, history, modes, errorMessage, dialogs,
                   buttonDown, opDrag, outside>>

(***************************************************************************)
(* Rectangle selection: a press with the shift key starts the rectangle,   *)
(* every pointer move while it is drawn selects again.                     *)
(***************************************************************************)
\* handleMouseDown with the shift key: the rectangle starts at p; without
\* the additive modifier the selection is cleared.
handleMouseDownShift(p, isMultiSelect) ==
    /\ ~deleteModal
    /\ ~buttonDown
    /\ buttonDown' = TRUE
    /\ isRectangleSelecting' = TRUE
    /\ selectionStart' = p
    /\ gestureStart' = [selectedNodes |-> selectedNodes,
                        selectedConnections |-> selectedConnections,
                        additive |-> isMultiSelect]
    /\ IF isMultiSelect
       THEN UNCHANGED selection
       ELSE selectedNodes' = {} /\ selectedConnections' = {}
    /\ UNCHANGED <<graph, history, isDragging, isPanning, isDrawingConnection,
                   connectionStartNode, draggedNode, errorMessage, nextId, dialogs,
                   currentNode, halted, observed, treeFile, exported, exportedConfigs,
                   gate, functionTemplates, functionButtons>>

\* `this.lastEvent && (this.lastEvent.ctrlKey || this.lastEvent.metaKey)`:
\* lastEvent is declared null and no handler assigns it.
lastEventIsMultiSelect == FALSE

computeCode(x, y, left, top, right, bottom) ==
    (IF x < left THEN {"LEFT"} ELSE IF x > right THEN {"RIGHT"} ELSE {})
        \cup (IF y < top THEN {"TOP"} ELSE IF y > bottom THEN {"BOTTOM"} ELSE {})

\* lineIntersectsBox: the first round of the clipping loop, which returns in
\* every case.
lineIntersectsBox(x1, y1, x2, y2, left, top, right, bottom) ==
    LET code1 == computeCode(x1, y1, left, top, right, bottom)
        code2 == computeCode(x2, y2, left, top, right, bottom)
    IN  IF code1 \cup code2 = {} THEN TRUE
        ELSE IF code1 \cap code2 # {} THEN FALSE
        ELSE TRUE

Min(a, b) == IF a <= b THEN a ELSE b
Max(a, b) == IF a >= b THEN a ELSE b

\* updateRectangleSelection: the selection it leaves, from the rectangle
\* between selectionStart and currentMousePos.
updateRectangleSelection(start, current, oldNodes, oldConnections) ==
    LET left == Min(start.x, current.x)
        right == Max(start.x, current.x)
        top == Min(start.y, current.y)
        bottom == Max(start.y, current.y)
        keptNodes == IF lastEventIsMultiSelect THEN oldNodes ELSE {}
        keptConnections == IF lastEventIsMultiSelect THEN oldConnections ELSE {}
    IN  [selectedNodes |->
             keptNodes \cup
             {nodes[i].id : i \in {k \in 1..Len(nodes) :
                 /\ nodes[k].x <= right /\ nodes[k].x + calculateNodeWidth(nodes[k]) >= left
                 /\ nodes[k].y <= bottom /\ nodes[k].y + NODE_HEIGHT >= top}},
         selectedConnections |->
             keptConnections \cup
             {j \in 1..Len(connections) :
                 lineIntersectsBox(CurveFrom(j).x, CurveFrom(j).y, CurveTo(j).x, CurveTo(j).y,
                                   left, top, right, bottom)}]

\* handleMouseMove to the canvas point p while the rectangle is drawn.  No
\* node is dragged then: the shift press returns before the node branch.
\* The pointer keeps off canvases with a connection end outside the node list.
handleMouseMoveRectangle(p) ==
    /\ ~deleteModal
    /\ isRectangleSelecting
    /\ ~isDragging
    /\ \A j \in 1..Len(connections) : Attached(j)
    /\ LET picked == updateRectangleSelection(selectionStart, p, selectedNodes,
                                              selectedConnections)
       IN  /\ selectedNodes' = picked.selectedNodes
           /\ selectedConnections' = picked.selectedConnections
    /\ halted' = (halted \/ DrawThrows(nodes, connections))
    /\ UNCHANGED <<graph, history, modes, errorMessage, nextId, dialogs, currentNode,
                   buttonDown, observed, outside>>

(***************************************************************************)
(* New, File > Open and closing the window behind the save confirmation.   *)
(* The confirmation is a modal dialog of the window: the operation waits   *)
(* for the answer 'save', 'discard' or 'cancel'.                           *)
(***************************************************************************)
Answers == {"save", "discard", "cancel"}

\* clear(): the graph, the selection and the right column are emptied; the
\* history stays.
clear ==
    /\ nodes' = <<>>
    /\ connections' = <<>>
    /\ usedNames' = {}
    /\ selectedNodes' = {}
    /\ selectedConnections' = {}
    /\ currentNode' = 0
    /\ UNCHANGED <<history, modes, errorMessage, nextId, dialogs, buttonDown, halted,
                   observed>>

Stays ==
    UNCHANGED <<graph, selection, history, modes, errorMessage, nextId, dialogs,
                currentNode, buttonDown, halted, observed>>

\* hasContent()
hasContent == Len(nodes) > 0

\* An operation behind the confirmation starts: with content it asks, and
\* without it goes on at once.
handleNewStart ==
    /\ confirm = "none"
    /\ IF hasContent
       THEN confirm' = "new" /\ Stays
       ELSE confirm' = "none" /\ clear
    /\ UNCHANGED <<treeFile, exported, exportedConfigs, isQuitting, shouldSave,
                   functionTemplates, functionButtons, rectangle>>

MenuOpenStart ==
    /\ confirm = "none"
    /\ IF hasContent
       THEN confirm' = "open" /\ Stays
       ELSE confirm' = "none" /\ OpenFile
    /\ UNCHANGED <<treeFile, exported, exportedConfigs, isQuitting, shouldSave,
                   functionTemplates, functionButtons, rectangle>>

WindowCloseStart ==
    /\ confirm = "none"
    /\ IF hasContent
       THEN confirm' = "close" /\ UNCHANGED isQuitting
       ELSE confirm' = "none" /\ isQuitting' = TRUE
    /\ Stays
    /\ UNCHANGED <<treeFile, exported, exportedConfigs, shouldSave, functionTemplates,
                   functionButtons,
                   rectangle>>

\* The file after the answer: 'save' writes the document unless the save
\* dialog is cancelled (saved = FALSE).
FileAfter(answer, saved) ==
    IF answer = "save" /\ saved THEN serializeTree(nodes, connections) ELSE treeFile

\* handleNew goes on to clear() after the answer.
NewProceeds(answer) == answer # "cancel"

\* The Open menu handler and the close handler go on after the answer.
GoesOn_Always(answer, saved) == TRUE

GoesOn(answer, saved) == answer = "discard" \/ (answer = "save" /\ saved)

handleNewAnswer(answer, saved) ==
    /\ confirm = "new"
    /\ confirm' = "none"
    /\ shouldSave' = answer
    /\ answer = "save" => ~SerializeThrows(connections)
    /\ treeFile' = FileAfter(answer, saved)
    /\ IF NewProceeds(answer) THEN clear ELSE Stays
    /\ UNCHANGED <<exported, exportedConfigs, isQuitting, functionTemplates, functionButtons, rectangle>>

MenuOpenAnswer(answer, saved) ==
    /\ confirm = "open"
    /\ confirm' = "none"
    /\ shouldSave' = answer
    /\ answer = "save" => ~SerializeThrows(connections)
    /\ treeFile' = FileAfter(answer, saved)
    /\ IF GoesOn(answer, saved) THEN OpenFile ELSE Stays
    /\ UNCHANGED <<exported, exportedConfigs, isQuitting, functionTemplates, functionButtons, rectangle>>

WindowCloseAnswer(answer, saved) ==
    /\ confirm = "close"
    /\ confirm' = "none"
    /\ shouldSave' = answer
    /\ answer = "save" => ~SerializeThrows(connections)
    /\ treeFile' = FileAfter(answer, saved)
    /\ isQuitting' = GoesOn(answer, saved)
    /\ Stays
    /\ UNCHANGED <<exported, exportedConfigs, functionTemplates, functionButtons, rectangle>>

(***************************************************************************)
(* The opened document: MaxNodes nodes placed apart, no connections, an    *)
(* empty history.                                                          *)
(***************************************************************************)
\* The nodes a document is drawn from: two roots, a Sequence, a Repeat, a
\* CustomAction and two blackboards (indices into NodeTypes).
DrawCast == <<1, 1, 2, 3, 4, 5, 5>>

\* A scene is MaxNodes members of the cast, in cast order (the order of nodes
\* that do not overlap decides no hit test).
DrawScenes ==
    {f \in [1..MaxNodes -> 1..Len(DrawCast)] :
        \A i \in 1..(MaxNodes - 1) : f[i] < f[i + 1]}

\* No document was chosen in the open dialog, nothing was exported.
NoFile == [logical |-> [nodes |-> <<>>, connections |-> <<>>],
           display |-> [nodes |-> <<>>]]
NoExport == <<>>

NoGesture == [selectedNodes |-> {}, selectedConnections |-> {}, additive |-> FALSE]

\* The fields of a CanvasManager after construction, around the node list.
InitCanvas ==
    /\ connections = <<>>
    /\ usedNames = {}
    /\ selectedNodes = {}
    /\ selectedConnections = {}
    /\ isDragging = FALSE
    /\ isPanning = FALSE
    /\ isDrawingConnection = FALSE
    /\ isRectangleSelecting = FALSE
    /\ connectionStartNode = NullRef
    /\ draggedNode = NullRef
    /\ undoStack = <<>>
    /\ redoStack = <<>>
    /\ errorMessage = ""
    /\ nextId = Len(nodes) + 1
    /\ pendingAdds = <<>>
    /\ skipDeleteConfirmation = FALSE
    /\ deleteModal = FALSE
    /\ currentNode = 0
    /\ buttonDown = FALSE
    /\ halted = FALSE
    /\ opBase = Snapshot(<<>>, <<>>, {})
    /\ opCount = 0
    /\ opDrag = FALSE
    /\ events = 0
    /\ exported = NoExport
    /\ exportedConfigs = NoExport
    /\ confirm = "none"
    /\ isQuitting = FALSE
    /\ shouldSave = ""
    /\ functionTemplates = <<>>
    /\ functionButtons = <<>>
    /\ selectionStart = [x |-> 0, y |-> 0]
    /\ gestureStart = NoGesture

InitDraw ==
    /\ \E f \in DrawScenes :
         nodes = [i \in 1..MaxNodes |->
                    NewNode(i, NodeTypes[DrawCast[f[i]]], NODE_SPACING * i, NODE_SPACING)]
    /\ InitCanvas
    /\ treeFile = NoFile

(***************************************************************************)
(* The connection-draw specification: pointer gestures on the connection   *)
(* points of the opened document.                                          *)
(***************************************************************************)
NextDraw ==
    \/ /\ \E p \in PointerPoints :
             ConnectionPointHits(p) # {} /\ handleMouseDown(p, FALSE)
       /\ UNCHANGED <<events, outside>>
    \/ /\ \E p \in PointerPoints : handleMouseUp(p) /\ Len(connections') <= MaxConns
       /\ UNCHANGED <<events, outside>>
    \/ ErrorTimeout /\ UNCHANGED <<events, outside>>

SpecDraw == InitDraw /\ [][NextDraw]_vars

(***************************************************************************)
(* The editing specification: every gesture, key and right-column edit on  *)
(* a document of a root, a Repeat and a CustomAction.                      *)
(***************************************************************************)
EditCast == <<1, 3, 4, 2, 5>>

Init ==
    /\ nodes = [i \in 1..EditNodes |->
                  NewNode(i, NodeTypes[EditCast[((i - 1) % Len(EditCast)) + 1]],
                          NODE_SPACING * i, NODE_SPACING)]
    /\ InitCanvas
    /\ treeFile = NoFile

CustomNames == {"", "a"}
NTimesInputs == {1, 2}
AddTypes == {2}

\* The bounds of the editing specification.
MaxY == NODE_SPACING * (1 + MaxDrags)
EditBounded ==
    /\ Len(connections) <= EditConns
    /\ Len(undoStack) <= MaxHist
    /\ Len(pendingAdds) <= MaxPending
    /\ nextId + Len(pendingAdds) <= EditNodes + MaxNew + 1
    /\ \A n \in Range(nodes) : n.y <= MaxY

\* One event of the session, handled by action A.
Event(A) ==
    /\ ~halted
    /\ events < MaxEvents
    /\ A
    /\ EditBounded'
    /\ events' = events + 1
    /\ UNCHANGED outside

Next ==
    \/ Event(\E p \in EditPoints : \E m \in BOOLEAN : handleMouseDown(p, m))
    \/ Event(\E d \in DragMoves : handleMouseMove(d))
    \/ Event(\E p \in EditPoints : handleMouseUp(p))
    \/ Event(KeyDelete)
    \/ Event(\E dontAskAgain \in BOOLEAN : ModalYes(dontAskAgain))
    \/ Event(ModalNo)
    \/ Event(ReleaseOffCanvas)
    \/ Event(KeyDuplicate)
    \/ Event(\E name \in CustomNames : updateNodeCustomName(currentNode, name))
    \/ Event(\E v \in NTimesInputs : updateNodeNTimes(currentNode, v))
    \/ Event(\E t \in AddTypes : AddNodeCall(t))
    \/ Event(AddNodeResume)
    \/ Event(Undo)
    \/ Event(Redo)
    \/ Event(ErrorTimeout)

Spec == Init /\ [][Next]_vars

(***************************************************************************)
(* The naming specification: a session that opens or adds a two-node tree  *)
(* document, selects nodes with the pointer, renames, duplicates, deletes, *)
(* saves, undoes and redoes.                                               *)
(***************************************************************************)
\* A logical node and its display entry, as serializeTree writes them.
LogicalNode(id, t, customName) ==
    [id |-> id, type |-> t.type, name |-> t.name, customName |-> customName,
     has_children |-> t.has_children, n_times |-> IF t.name = "Repeat" THEN 1 ELSE 0,
     configs |-> {}, configValues |-> DefaultValues({})]
DisplayNode(id, x, y) == [id |-> id, x |-> x, y |-> y]

\* The documents of the naming specification: a Root above a Sequence,
\* connected or not, named or not.
NameDocs ==
    {[logical |->
         [nodes |-> <<LogicalNode(1, NodeTypes[1], rootName),
                      LogicalNode(2, NodeTypes[2], childName)>>,
          connections |-> cs],
      display |-> [nodes |-> <<DisplayNode(1, NODE_SPACING, NODE_SPACING),
                               DisplayNode(2, NODE_SPACING, 2 * NODE_SPACING)>>]] :
        rootName \in {"", "a"}, childName \in {"", "a_copy"},
        cs \in {<<>>, <<[fromNodeId |-> 1, toNodeId |-> 2]>>}}

\* What is typed into the name field of the right column.
NameInputs == {"", "a", "Sequence"}

InitNames ==
    /\ nodes = <<>>
    /\ InitCanvas
    /\ treeFile \in NameDocs

\* Where the pointer is pressed and released: node bodies and curves.
NamePoints ==
    {BodyPoint(n) : n \in Range(nodes)}
      \cup {CurvePoint(j) : j \in {k \in 1..Len(connections) : Attached(k)}}

NamesBounded ==
    /\ Len(nodes) <= NameNodes
    /\ Len(undoStack) <= MaxHist

\* One event of the session, handled by action A.
NameEvent(A) ==
    /\ ~halted
    /\ events < MaxNameEvents
    /\ A
    /\ NamesBounded'
    /\ events' = events + 1

NextNames ==
    \/ NameEvent(Open)
    \/ NameEvent(AddTreeFromFile)
    \/ NameEvent(Save)
    \/ NameEvent(/\ \E p \in NamePoints : \E m \in BOOLEAN : handleMouseDown(p, m)
                 /\ UNCHANGED outside)
    \/ NameEvent(/\ \E p \in NamePoints : handleMouseUp(p)
                 /\ UNCHANGED outside)
    \/ NameEvent(KeyDelete /\ UNCHANGED outside)
    \/ NameEvent((\E dontAskAgain \in BOOLEAN : ModalYes(dontAskAgain)) /\ UNCHANGED outside)
    \/ NameEvent(ModalNo /\ UNCHANGED outside)
    \/ NameEvent(ReleaseOffCanvas /\ UNCHANGED outside)
    \/ NameEvent(KeyDuplicate /\ UNCHANGED outside)
    \/ NameEvent((\E name \in NameInputs : updateNodeCustomName(currentNode, name))
                 /\ UNCHANGED outside)
    \/ NameEvent(Undo /\ UNCHANGED outside)
    \/ NameEvent(Redo /\ UNCHANGED outside)
    \/ NameEvent(ErrorTimeout /\ UNCHANGED outside)

SpecNames == InitNames /\ [][NextNames]_vars

(***************************************************************************)
(* The document specification: a session that opens a tree document of     *)
(* FileNodes logical nodes, well-formed or not, displays nodes, edits their *)
(* scalar fields, saves and opens again.                                    *)
(***************************************************************************)
\* The nodes a document is written from: a Root, a Sequence, a Repeat, a
\* History, a CustomAction and a Blackboard (indices into NodeTypes).
FileCast == <<1, 2, 3, 6, 4, 5>>

FileScenes ==
    {f \in [1..FileNodes -> 1..Len(FileCast)] :
        \A i \in 1..(FileNodes - 1) : f[i] < f[i + 1]}

\* The connections of a document: up to FileConns different id pairs, in
\* any order; id FileNodes + 1 is the id of no node.
FilePairs ==
    {[fromNodeId |-> a, toNodeId |-> b] :
        a \in 1..(FileNodes + 1), b \in (1..(FileNodes + 1))}
FileConnections ==
    {cs \in UNION {[1..n -> FilePairs] : n \in 0..FileConns} :
        /\ \A j \in 1..Len(cs) : cs[j].fromNodeId # cs[j].toNodeId
        /\ \A j, k \in 1..Len(cs) : j # k => cs[j] # cs[k]}

\* The documents: every logical node has a display entry, or one lacks it.
FileDocs ==
    {[logical |->
         [nodes |-> [i \in 1..FileNodes |-> LogicalNode(i, NodeTypes[FileCast[f[i]]], "")],
          connections |-> cs],
      display |->
         [nodes |-> KeepSeq([i \in 1..FileNodes |-> DisplayNode(i, NODE_SPACING * i, NODE_SPACING)],
                            (1..FileNodes) \ {missing})]] :
        f \in FileScenes, cs \in FileConnections, missing \in 0..FileNodes}

InitFile ==
    /\ nodes = <<>>
    /\ InitCanvas
    /\ treeFile \in FileDocs

ChildKeyInputs == {"k"}

FileEvent(A) ==
    /\ ~halted
    /\ events < MaxFileEvents
    /\ A
    /\ Len(undoStack') <= MaxHist
    /\ events' = events + 1

NextFile ==
    \/ FileEvent(Open)
    \/ FileEvent(Save)
    \/ FileEvent(/\ \E n \in Range(nodes) : handleMouseDown(BodyPoint(n), FALSE)
                 /\ UNCHANGED outside)
    \/ FileEvent(/\ \E n \in Range(nodes) : handleMouseUp(BodyPoint(n))
                 /\ UNCHANGED outside)
    \/ FileEvent((\E k \in ChildKeyInputs : updateNodeChildKey(currentNode, k))
                 /\ UNCHANGED outside)
    \/ FileEvent((\E v \in NTimesInputs : updateNodeNTimes(currentNode, v))
                 /\ UNCHANGED outside)

SpecFile == InitFile /\ [][NextFile]_vars

(***************************************************************************)
(* The collapse specification: a session that opens a document with a Root *)
(* above a Sequence above an Action, presses and releases the pointer on   *)
(* node bodies and connection points, and double-clicks node bodies.       *)
(***************************************************************************)
CollapseDocs ==
    {[logical |->
         [nodes |-> <<LogicalNode(1, NodeTypes[1], ""),
                      LogicalNode(2, NodeTypes[2], ""),
                      LogicalNode(3, NodeTypes[3], "")>>,
          connections |-> cs],
      display |-> [nodes |-> <<DisplayNode(1, NODE_SPACING, NODE_SPACING),
                               DisplayNode(2, NODE_SPACING, 2 * NODE_SPACING),
                               DisplayNode(3, x3, 3 * NODE_SPACING)>>]] :
        cs \in {<<[fromNodeId |-> 1, toNodeId |-> 2], [fromNodeId |-> 2, toNodeId |-> 3]>>,
                <<[fromNodeId |-> 2, toNodeId |-> 3]>>,
                <<[fromNodeId |-> 1, toNodeId |-> 2]>>},
        x3 \in {NODE_SPACING, 2 * NODE_SPACING}}

InitCollapse ==
    /\ nodes = <<>>
    /\ InitCanvas
    /\ treeFile \in CollapseDocs

\* Where the pointer is pressed, released and double-clicked: node bodies
\* and the connection points of the nodes.
CollapsePoints ==
    {BodyPoint(n) : n \in Range(nodes)}
      \cup {TopPoint(n) : n \in Range(nodes)}
      \cup {BottomPoint(n) : n \in {m \in Range(nodes) : m.has_children}}

CollapseEvent(A) ==
    /\ ~halted
    /\ events < MaxCollapseEvents
    /\ A
    /\ Len(undoStack') <= MaxHist
    /\ events' = events + 1

NextCollapse ==
    \/ CollapseEvent(Open)
    \/ CollapseEvent(/\ \E p \in CollapsePoints : handleMouseDown(p, FALSE)
                     /\ UNCHANGED outside)
    \/ CollapseEvent(/\ \E p \in CollapsePoints : handleMouseUp(p)
                     /\ UNCHANGED outside)
    \/ CollapseEvent(/\ \E n \in Range(nodes) : handleDoubleClick(BodyPoint(n))
                     /\ UNCHANGED outside)

SpecCollapse == InitCollapse /\ [][NextCollapse]_vars

(***************************************************************************)
(* The export specification: a session that opens a document with two      *)
(* Roots, a Sequence with a Repeat and a CustomAction below it, and a      *)
(* Blackboard; selects nodes, renames them and exports.                    *)
(***************************************************************************)
ExportDocs ==
    {[logical |->
         [nodes |-> <<LogicalNode(1, NodeTypes[1], rootName),
                      LogicalNode(2, NodeTypes[2], ""),
                      LogicalNode(3, NodeTypes[3], ""),
                      LogicalNode(4, NodeTypes[4], ""),
                      LogicalNode(5, NodeTypes[5], ""),
                      LogicalNode(6, NodeTypes[1], "")>>,
          connections |-> IF boardFirst
                          THEN <<[fromNodeId |-> boardParent, toNodeId |-> 5],
                                 [fromNodeId |-> 1, toNodeId |-> 2],
                                 [fromNodeId |-> 2, toNodeId |-> 3],
                                 [fromNodeId |-> 2, toNodeId |-> 4]>>
                          ELSE <<[fromNodeId |-> 1, toNodeId |-> 2],
                                 [fromNodeId |-> 2, toNodeId |-> 3],
                                 [fromNodeId |-> 2, toNodeId |-> 4],
                                 [fromNodeId |-> boardParent, toNodeId |-> 5]>>],
      display |-> [nodes |-> <<DisplayNode(1, 2 * NODE_SPACING, NODE_SPACING),
                               DisplayNode(2, 2 * NODE_SPACING, 2 * NODE_SPACING),
                               DisplayNode(3, x3, 3 * NODE_SPACING),
                               DisplayNode(4, x4, 3 * NODE_SPACING),
                               DisplayNode(5, NODE_SPACING, 3 * NODE_SPACING),
                               DisplayNode(6, 5 * NODE_SPACING, NODE_SPACING)>>]] :
        rootName \in {"", "a"}, boardFirst \in BOOLEAN, boardParent \in {1, 2},
        x3 \in {2 * NODE_SPACING, 4 * NODE_SPACING},
        x4 \in {3 * NODE_SPACING, 4 * NODE_SPACING}}

\* What is typed into the name field in the export specification.
ExportNameInputs == {"", "tree_2"}

InitExport ==
    /\ nodes = <<>>
    /\ InitCanvas
    /\ treeFile \in ExportDocs

ExportEvent(A) ==
    /\ ~halted
    /\ events < MaxExportEvents
    /\ A
    /\ Len(undoStack') <= MaxHist
    /\ events' = events + 1

NextExport ==
    \/ ExportEvent(Open)
    \/ ExportEvent(Export)
    \/ ExportEvent(/\ \E n \in Range(nodes) : handleMouseDown(BodyPoint(n), FALSE)
                   /\ UNCHANGED outside)
    \/ ExportEvent(/\ \E n \in Range(nodes) : handleMouseUp(BodyPoint(n))
                   /\ UNCHANGED outside)
    \/ ExportEvent((\E name \in ExportNameInputs : updateNodeCustomName(currentNode, name))
                   /\ UNCHANGED outside)

SpecExport == InitExport /\ [][NextExport]_vars

(***************************************************************************)
(* The config specification: a session that opens or adds a document with  *)
(* a Root, a Sequence and a CustomAction that bear configs, selects and    *)
(* duplicates nodes, and exports.                                          *)
(***************************************************************************)
ConfigDocs ==
    {[logical |->
         [nodes |-> <<[LogicalNode(1, NodeTypes[1], "") EXCEPT
                          !.configs = rootConfigs,
                          !.configValues = DefaultValues(rootConfigs)],
                      [LogicalNode(2, NodeTypes[2], "") EXCEPT
                          !.configValues = DefaultValues(strayValues)],
                      [LogicalNode(3, NodeTypes[4], "") EXCEPT
                          !.configs = {"cfgA", "cfgB"},
                          !.configValues = DefaultValues(actionValues)]>>,
          connections |-> <<[fromNodeId |-> 1, toNodeId |-> 2],
                            [fromNodeId |-> 2, toNodeId |-> 3]>>],
      display |-> [nodes |-> <<DisplayNode(1, NODE_SPACING, NODE_SPACING),
                               DisplayNode(2, NODE_SPACING, 2 * NODE_SPACING),
                               DisplayNode(3, NODE_SPACING, 3 * NODE_SPACING)>>]] :
        rootConfigs \in {{}, {"cfgA"}}, strayValues \in {{}, {"cfgB"}},
        actionValues \in {{"cfgA"}, {"cfgA", "cfgB"}}}

InitConfig ==
    /\ nodes = <<>>
    /\ InitCanvas
    /\ treeFile \in ConfigDocs

ConfigEvent(A) ==
    /\ ~halted
    /\ events < MaxConfigEvents
    /\ A
    /\ Len(undoStack') <= MaxHist
    /\ events' = events + 1

NextConfig ==
    \/ ConfigEvent(Open)
    \/ ConfigEvent(AddTreeFromFile)
    \/ ConfigEvent(Export)
    \/ ConfigEvent(/\ \E n \in Range(nodes) : handleMouseDown(BodyPoint(n), FALSE)
                   /\ UNCHANGED outside)
    \/ ConfigEvent(/\ \E n \in Range(nodes) : handleMouseUp(BodyPoint(n))
                   /\ UNCHANGED outside)
    \/ ConfigEvent(KeyDuplicate /\ UNCHANGED outside)

SpecConfig == InitConfig /\ [][NextConfig]_vars

(***************************************************************************)
(* The confirmation specification: a session that opens and adds           *)
(* documents, saves, and starts New, File > Open and closing the window,   *)
(* answering the save confirmation each way.  While the confirmation is up *)
(* the window takes no other input; after quitting nothing happens.        *)
(***************************************************************************)
InitGate ==
    /\ nodes = <<>>
    /\ InitCanvas
    /\ treeFile \in NameDocs

GateEvent(A) ==
    /\ ~halted
    /\ ~isQuitting
    /\ events < MaxGateEvents
    /\ A
    /\ Len(nodes') <= NameNodes
    /\ events' = events + 1

NextGate ==
    \/ GateEvent(confirm = "none" /\ Open)
    \/ GateEvent(confirm = "none" /\ AddTreeFromFile)
    \/ GateEvent(confirm = "none" /\ Save)
    \/ GateEvent(handleNewStart)
    \/ GateEvent(MenuOpenStart)
    \/ GateEvent(WindowCloseStart)
    \/ GateEvent(\E answer \in Answers, saved \in BOOLEAN : handleNewAnswer(answer, saved))
    \/ GateEvent(\E answer \in Answers, saved \in BOOLEAN : MenuOpenAnswer(answer, saved))
    \/ GateEvent(\E answer \in Answers, saved \in BOOLEAN : WindowCloseAnswer(answer, saved))

SpecGate == InitGate /\ [][NextGate]_vars

(***************************************************************************)
(* The template specification: a session that opens a document with a      *)
(* named Root above a Sequence above a CustomAction and a Blackboard below *)
(* the Root or the Sequence, selects and drags nodes, records templates    *)
(* and instantiates them.                                                  *)
(***************************************************************************)
ConfigValueInputs == {1}

TemplateDocs ==
    {[logical |->
         [nodes |-> <<LogicalNode(1, NodeTypes[1], rootName),
                      [LogicalNode(2, NodeTypes[2], "b") EXCEPT
                          !.configs = {"cfgA"}, !.configValues = DefaultValues({"cfgA"})],
                      LogicalNode(3, NodeTypes[4], ""),
                      LogicalNode(4, NodeTypes[5], "")>>,
          connections |-> <<[fromNodeId |-> boardParent, toNodeId |-> 4],
                            [fromNodeId |-> 1, toNodeId |-> 2],
                            [fromNodeId |-> 2, toNodeId |-> 3]>>],
      display |-> [nodes |-> <<DisplayNode(1, 2 * NODE_SPACING, NODE_SPACING),
                               DisplayNode(2, 2 * NODE_SPACING, 2 * NODE_SPACING),
                               DisplayNode(3, 2 * NODE_SPACING, 3 * NODE_SPACING),
                               DisplayNode(4, NODE_SPACING, 3 * NODE_SPACING)>>]] :
        rootName \in {"", "a"}, boardParent \in {1, 2}}

InitTemplate ==
    /\ nodes = <<>>
    /\ InitCanvas
    /\ treeFile \in TemplateDocs

TemplateEvent(A) ==
    /\ ~halted
    /\ events < MaxTemplateEvents
    /\ A
    /\ Len(nodes') <= TemplateNodes
    /\ Len(undoStack') <= MaxHist
    /\ events' = events + 1

NextTemplate ==
    \/ TemplateEvent(Open)
    \/ TemplateEvent(/\ \E n \in Range(nodes) : handleMouseDown(BodyPoint(n), FALSE)
                     /\ UNCHANGED outside)
    \/ TemplateEvent(/\ \E d \in DragMoves : handleMouseMove(d)
                     /\ UNCHANGED outside)
    \/ TemplateEvent(/\ \E n \in Range(nodes) : handleMouseUp(BodyPoint(n))
                     /\ UNCHANGED outside)
    \/ TemplateEvent(\E n \in Range(nodes) : CreateFunction(BodyPoint(n)))
    \/ TemplateEvent(\E k \in 1..Len(functionButtons) :
                        instantiateFunction(functionButtons[k].nodeId))
    \/ TemplateEvent(\E k \in 1..Len(functionButtons) :
                        DeleteFunction(functionButtons[k].nodeId))
    \/ TemplateEvent(/\ IsLive(currentNode)
                     /\ "cfgA" \in NodeOf(currentNode).configs
                     /\ \E v \in ConfigValueInputs :
                           updateNodeConfigValue(currentNode, "cfgA", v))

SpecTemplate == InitTemplate /\ [][NextTemplate]_vars

(***************************************************************************)
(* The drag specification: a session that opens a document of a Root, a    *)
(* Sequence, a CustomAction and a Repeat, joined as a tree or with the      *)
(* CustomAction above the Repeat, selects nodes with and without the       *)
(* modifier key and drags them.                                            *)
(***************************************************************************)
DragDocs ==
    {[logical |->
         [nodes |-> <<LogicalNode(1, NodeTypes[1], ""),
                      LogicalNode(2, NodeTypes[2], ""),
                      LogicalNode(3, NodeTypes[4], ""),
                      LogicalNode(4, NodeTypes[3], "")>>,
          connections |-> cs],
      display |-> [nodes |-> <<DisplayNode(1, NODE_SPACING, NODE_SPACING),
                               DisplayNode(2, NODE_SPACING, 2 * NODE_SPACING),
                               DisplayNode(3, NODE_SPACING, 3 * NODE_SPACING),
                               DisplayNode(4, 2 * NODE_SPACING, 3 * NODE_SPACING)>>]] :
        cs \in {<<[fromNodeId |-> 1, toNodeId |-> 2], [fromNodeId |-> 2, toNodeId |-> 3],
                  [fromNodeId |-> 2, toNodeId |-> 4]>>,
                <<[fromNodeId |-> 1, toNodeId |-> 2], [fromNodeId |-> 2, toNodeId |-> 3],
                  [fromNodeId |-> 3, toNodeId |-> 4]>>,
                <<[fromNodeId |-> 2, toNodeId |-> 4], [fromNodeId |-> 4, toNodeId |-> 3]>>,
                <<>>}}

InitDragSession ==
    /\ nodes = <<>>
    /\ InitCanvas
    /\ treeFile \in DragDocs

DragEvent(A) ==
    /\ ~halted
    /\ events < MaxDragEvents
    /\ A
    /\ Len(undoStack') <= MaxHist
    /\ events' = events + 1

NextDrag ==
    \/ DragEvent(Open)
    \/ DragEvent(/\ \E n \in Range(nodes) : \E m \in BOOLEAN :
                        handleMouseDown(BodyPoint(n), m)
                 /\ UNCHANGED outside)
    \/ DragEvent(/\ \E d \in DragMoves : handleMouseMove(d)
                 /\ UNCHANGED outside)
    \/ DragEvent(/\ \E n \in Range(nodes) : handleMouseUp(BodyPoint(n))
                 /\ UNCHANGED outside)

SpecDrag == InitDragSession /\ [][NextDrag]_vars

(***************************************************************************)
(* The rectangle specification: a session that opens a document of the     *)
(* drag specification, clicks nodes with and without the modifier key and  *)
(* draws selection rectangles between the points of RectanglePoints.       *)
(***************************************************************************)
RectanglePoints ==
    {[x |-> 100, y |-> 100], [x |-> 300, y |-> 300], [x |-> 400, y |-> 470],
     [x |-> 600, y |-> 500], [x |-> 600, y |-> 700]}

InitRectangle ==
    /\ nodes = <<>>
    /\ InitCanvas
    /\ treeFile \in DragDocs

RectangleEvent(A) ==
    /\ ~halted
    /\ events < MaxRectangleEvents
    /\ A
    /\ events' = events + 1

NextRectangle ==
    \/ RectangleEvent(Open)
    \/ RectangleEvent(/\ \E n \in Range(nodes) : \E m \in BOOLEAN :
                             handleMouseDown(BodyPoint(n), m)
                      /\ UNCHANGED outside)
    \/ RectangleEvent(\E p \in RectanglePoints : \E m \in BOOLEAN :
                          handleMouseDownShift(p, m))
    \/ RectangleEvent(\E p \in RectanglePoints : handleMouseMoveRectangle(p))
    \/ RectangleEvent(/\ \E p \in RectanglePoints : handleMouseUp(p)
                      /\ UNCHANGED outside)

SpecRectangle == InitRectangle /\ [][NextRectangle]_vars

(***************************************************************************)
(* Properties of the connection-draw gesture.                              *)
(***************************************************************************)
Parents(id) == {j \in 1..Len(connections) : connections[j].toNode = id}
Children(id) == {j \in 1..Len(connections) : connections[j].fromNode = id}

\* C1: no node is the toNode of more than one connection.
C1_SingleParent ==
    \A n \in Range(nodes) : Cardinality(Parents(n.id)) <= 1

\* C2: every node of category decorator is the fromNode of at most one
\* connection.
C2_DecoratorSingleChild ==
    \A n \in Range(nodes) :
        n.type = "decorator" => Cardinality(Children(n.id)) <= 1

\* C3: every root has at most one blackboard child and at most one child of
\* any other category.
C3_RootCardinality ==
    \A n \in Range(nodes) :
        n.type = "root" =>
            /\ Cardinality({j \in Children(n.id) :
                              NodeType(connections[j].toNode) = "blackboard"}) <= 1
            /\ Cardinality({j \in Children(n.id) :
                              NodeType(connections[j].toNode) # "blackboard"}) <= 1

\* C4: every connection into a blackboard node comes from a root node.
C4_BlackboardPlacement ==
    \A j \in 1..Len(connections) :
        NodeType(connections[j].toNode) = "blackboard"
            => NodeType(connections[j].fromNode) = "root"

\* C5: no node is reachable from itself along connections.
C5_NoCycle ==
    \A n \in Range(nodes) : n.id \notin getDescendantNodes(n.id)

\* A pointer-up that a validation rule rejects.
RuleRejects(p) ==
    /\ ~isRectangleSelecting
    /\ isDrawingConnection
    /\ connectionStartNode # NullRef
    /\ MouseUpHits(p) # {}
    /\ RootRuleMessage(connectionStartNode, Ref(nodes[FirstOf(MouseUpHits(p))])) # ""

InitCap ==
    /\ nodes = <<NewNode(1, NodeTypes[3], NODE_SPACING, NODE_SPACING)>>
    /\ InitCanvas
    /\ treeFile = NoFile

NextCap ==
    \/ /\ handleMouseDown(BodyPoint(nodes[1]), FALSE)
       /\ UNCHANGED <<events, outside>>
    \/ /\ handleMouseUp(BodyPoint(nodes[1]))
       /\ UNCHANGED <<events, outside>>
    \/ /\ IsLive(currentNode)
       /\ NodeOf(currentNode).n_times <= MaxEdits
       /\ updateNodeNTimes(currentNode, NodeOf(currentNode).n_times + 1)
       /\ UNCHANGED <<events, outside>>
    \/ Undo /\ UNCHANGED <<events, outside>>
    \/ Redo /\ UNCHANGED <<events, outside>>

SpecCap == InitCap /\ [][NextCap]_vars

(***************************************************************************)
(* Properties of the undo/redo history.                                    *)
(***************************************************************************)
\* The graph of an editor state by value: the nodes, the connections as id
\* pairs, the used names.
GraphOf(ed) == Snapshot(ed.nodes, ed.connections, ed.usedNames)

RECURSIVE UndoTimes(_, _)
UndoTimes(ed, n) == IF n = 0 THEN ed ELSE UndoTimes(undo(ed), n - 1)

RECURSIVE RedoTimes(_, _)
RedoTimes(ed, n) == IF n = 0 THEN ed ELSE RedoTimes(redo(ed), n - 1)

\* C7: in every reachable state with a non-empty undo stack, undo() followed
\* by redo() yields the graph of that state, by value.
C7_UndoRedoIdentity ==
    Len(undoStack) > 0 => GraphOf(redo(undo(Current))) = GraphOf(Current)

\* C8: after N operations applied to a graph S0 (no addNode call still
\* awaiting the catalog), N undo() calls yield S0 and N redo() calls then
\* yield the graph the operations ended in.
C8_UndoRedoSequence ==
    (opCount > 0 /\ pendingAdds = <<>>) =>
        /\ GraphOf(UndoTimes(Current, opCount)) = opBase
        /\ GraphOf(RedoTimes(UndoTimes(Current, opCount), opCount)) = GraphOf(Current)

\* A step that changes the graph and is not an undo().
GraphChange ==
    /\ Snapshot(nodes', connections', usedNames') # Snapshot(nodes, connections, usedNames)
    /\ Len(undoStack') >= Len(undoStack)

\* C9: every step that changes the node list, the connection list or the
\* used names pushes exactly one checkpoint, equal to the graph before the
\* step; for addNode the checkpoint is the one its call pushed.
C9_CheckpointBeforeChange ==
    [][GraphChange =>
          IF Len(pendingAdds') < Len(pendingAdds)
          THEN /\ undoStack' = undoStack
               /\ Len(undoStack) > 0
               /\ undoStack[Len(undoStack)] = Snapshot(nodes, connections, usedNames)
          ELSE undoStack' =
                  PushCapped(undoStack, Snapshot(nodes, connections, usedNames))]_vars

\* A step that pushes a checkpoint on a full undo stack.
CheckpointOnFull ==
    /\ Len(undoStack) = MAX_UNDO_STACK_SIZE
    /\ undoStack' # undoStack
    /\ Len(undoStack') >= Len(undoStack)

\* C10: neither stack ever holds more than 50 checkpoints, and a checkpoint
\* pushed on a full undo stack discards the oldest one.
C10_HistoryCap ==
    /\ [](Len(undoStack) <= MAX_UNDO_STACK_SIZE /\ Len(redoStack) <= MAX_UNDO_STACK_SIZE)
    /\ [][CheckpointOnFull =>
             undoStack' = Append(Tail(undoStack),
                                 Snapshot(nodes, connections, usedNames))]_vars

\* C10 witness: the undo stack is full and its oldest checkpoint is no
\* longer the first one taken (count 1), which was discarded.
C10_Witness ==
    /\ Len(undoStack) = MAX_UNDO_STACK_SIZE
    /\ undoStack[1].nodes[1].n_times = 2
    /\ redoStack = <<>>

(***************************************************************************)
(* Properties of custom names.                                             *)
(***************************************************************************)
\* C11: no two nodes of the node list have the same non-empty customName.
C11_UniqueCustomNames ==
    \A i, j \in 1..Len(nodes) :
        (i # j /\ nodes[i].customName # "") => nodes[i].customName # nodes[j].customName

\* The name is held by a node other than `id`, or is a built-in type name
\* while the node is not a custom node.
NameCollides(id, name) ==
    /\ name # ""
    /\ \/ \E n \in Range(nodes) : n.id # id /\ n.customName = name
       \/ name \in BuiltInNames /\ NodeOf(id).name # "CustomAction"

\* C12: updateNodeCustomName with a colliding name is refused (the error
\* message is shown) and leaves the node list, the used names and the two
\* history stacks as they were.
C12_CollisionRejected ==
    [][\A name \in NameInputs :
          (/\ IsLive(currentNode)
           /\ NameCollides(currentNode, name)
           /\ updateNodeCustomName(currentNode, name))
             => /\ CustomNameMessage(NodeOf(currentNode), name) # ""
                /\ nodes' = nodes
                /\ usedNames' = usedNames
                /\ undoStack' = undoStack
                /\ redoStack' = redoStack]_vars

(***************************************************************************)
(* Properties of deleting the selection.                                   *)
(***************************************************************************)
\* A step that runs deleteSelectedNodes on a selection of nodes.
DeleteNodesStep ==
    /\ selectedNodes # {}
    /\ \/ skipDeleteConfirmation /\ KeyDelete
       \/ \E dontAskAgain \in BOOLEAN : ModalYes(dontAskAgain)

\* The connections that do not touch a selected node.
Untouched ==
    {j \in 1..Len(connections) :
        connections[j].fromNode \notin selectedNodes
            /\ connections[j].toNode \notin selectedNodes}

\* C13: deleting the selected nodes removes exactly those nodes and exactly
\* the connections with a deleted end (connections that are selected
\* themselves go with the same key press), and leaves the custom name of each
\* deleted node free: no longer a used name, and accepted when a remaining
\* node is renamed to it (a built-in type name only on a custom node).
C13_DeleteNodes ==
    [][DeleteNodesStep =>
          /\ nodes' = SelectSeq(nodes, LAMBDA n : n.id \notin selectedNodes)
          /\ \/ connections' = KeepSeq(connections, Untouched)
             \/ connections' = KeepSeq(connections, Untouched \ selectedConnections)
          /\ \A n \in Range(nodes) :
                (n.id \in selectedNodes /\ n.customName # "") =>
                    /\ n.customName \notin usedNames'
                    /\ \A m \in Range(nodes') :
                          (n.customName \notin BuiltInNames \/ m.name = "CustomAction")
                              => CustomNameMessage(m, n.customName)' = ""]_vars

\* C13 witness: the Root named "a" of a connected two-node tree was deleted;
\* the checkpoint holds the tree, the canvas holds the Sequence alone, no
\* connection and no used name.
C13_Witness ==
    /\ Len(undoStack) = 1
    /\ Len(undoStack[1].nodes) = 2
    /\ Len(undoStack[1].connections) = 1
    /\ undoStack[1].usedNames = {"a"}
    /\ Len(nodes) = 1
    /\ nodes[1].name = "Sequence"
    /\ connections = <<>>
    /\ usedNames = {}
    /\ ~deleteModal

(***************************************************************************)
(* Properties of tree documents.                                           *)
(***************************************************************************)
\* The four connection rules on a canvas (ns, cs): one parent per node, one
\* child per decorator, at most one blackboard child and one other child per
\* root, a blackboard only under a root.
ConnectionRulesHold(ns, cs) ==
    LET typeOf(id) == IF \E n \in Range(ns) : n.id = id
                      THEN (CHOOSE n \in Range(ns) : n.id = id).type
                      ELSE "none"
        from(id) == {j \in 1..Len(cs) : cs[j].fromNode = id}
        into(id) == {j \in 1..Len(cs) : cs[j].toNode = id}
    IN  /\ \A n \in Range(ns) : Cardinality(into(n.id)) <= 1
        /\ \A n \in Range(ns) : n.type = "decorator" => Cardinality(from(n.id)) <= 1
        /\ \A n \in Range(ns) :
              n.type = "root" =>
                 /\ Cardinality({j \in from(n.id) : typeOf(cs[j].toNode) = "blackboard"}) <= 1
                 /\ Cardinality({j \in from(n.id) : typeOf(cs[j].toNode) # "blackboard"}) <= 1
        /\ \A j \in 1..Len(cs) :
              typeOf(cs[j].toNode) = "blackboard" => typeOf(cs[j].fromNode) = "root"

\* The position in ns of the node with the id.
PositionOf(ns, id) == CHOOSE i \in 1..Len(ns) : ns[i].id = id

\* The connections of a canvas as pairs of node positions.
Topology(ns, cs) ==
    {<<PositionOf(ns, cs[j].fromNode), PositionOf(ns, cs[j].toNode)>> : j \in 1..Len(cs)}

\* The fields of a node that a document is to carry, the id left out.
Carried(n) ==
    [type |-> n.type, name |-> n.name, customName |-> n.customName,
     has_children |-> n.has_children, n_times |-> n.n_times,
     child_key |-> n.child_key, x |-> n.x, y |-> n.y,
     configs |-> n.configs, configValues |-> n.configValues]

\* C14: on every canvas that satisfies the connection rules, loadTree of
\* serializeTree yields the same nodes up to their ids, field by field and
\* at the same positions, joined by the same connections.
C14_SaveLoadRoundTrip ==
    (/\ ConnectionRulesHold(nodes, connections)
     /\ \A j \in 1..Len(connections) : Attached(j))
        => LET loaded == loadTree(serializeTree(nodes, connections), nextId)
           IN  /\ Len(loaded.nodes) = Len(nodes)
               /\ \A i \in 1..Len(nodes) : Carried(loaded.nodes[i]) = Carried(nodes[i])
               /\ Topology(loaded.nodes, loaded.connections) = Topology(nodes, connections)

\* C15: loadTree of any document ends without an exception and leaves a
\* canvas that satisfies the four connection rules.
C15_ResilientLoad ==
    [][Open => /\ ~halted'
               /\ ConnectionRulesHold(nodes', connections')]_vars

(***************************************************************************)
(* Properties of collapsed nodes.                                          *)
(***************************************************************************)
\* The node at index i of the node list is hidden: a node above it is
\* collapsed.
HiddenAt(i) == isNodeHidden(nodes, connections, nodes[i].id, Len(connections))

\* What the connection-point test of handleMouseDown returns at p: the index
\* of the first node with a connection point under p, 0 when there is none.
ConnectionPointPick(p) ==
    IF ConnectionPointHits(p) = {} THEN 0 ELSE FirstOf(ConnectionPointHits(p))

\* C16 (hiding): while a node is collapsed, neither getNodeAtPosition nor the
\* connection-point test of handleMouseDown returns a node below it.
C16_HiddenNotPicked ==
    \A p \in CollapsePoints :
        /\ getNodeAtPosition(p) # 0 => ~HiddenAt(getNodeAtPosition(p))
        /\ ConnectionPointPick(p) # 0 => ~HiddenAt(ConnectionPointPick(p))

\* C16 (the rest): a node without a collapsed node above it is picked at
\* its body, also after a second double-click expanded the node above it.
C16_ShownPicked ==
    \A i \in 1..Len(nodes) :
        ~HiddenAt(i) => getNodeAtPosition(BodyPoint(nodes[i])) # 0

\* C16: collapsing a node hides all and only the nodes below it from the
\* node hit test and the connection-point hit test.
C16_CollapseHidesFromPicking == C16_HiddenNotPicked /\ C16_ShownPicked

(***************************************************************************)
(* Properties of duplicating the selection.                                *)
(***************************************************************************)
\* The k-th name tried for the duplicate of a node named N: N_copy, then
\* N_copy_1, N_copy_2, ...
CopyCandidate(N, k) ==
    IF k = 0 THEN N \o "_copy" ELSE N \o "_copy_" \o ToString(k)

\* The node d of the new node list is the duplicate of the node n: a new id,
\* the place 50 to the right, the same type, and for a named n the first
\* candidate name that was not in use, which no other node bears.
IsDuplicateOf(d, k, n) ==
    /\ \A m \in Range(nodes) : d.id # m.id
    /\ \A j \in 1..Len(nodes') : j # k => nodes'[j].id # d.id
    /\ d.x = n.x + 50 /\ d.y = n.y
    /\ d.name = n.name /\ d.type = n.type
    /\ n.customName = "" => d.customName = ""
    /\ n.customName # "" =>
          /\ \E c \in 0..(Cardinality(usedNames) + Len(nodes)) :
                /\ d.customName = CopyCandidate(n.customName, c)
                /\ d.customName \notin usedNames
                /\ \A b \in 0..(c - 1) : CopyCandidate(n.customName, b) \in usedNames'
          /\ \A j \in 1..Len(nodes') : j # k => nodes'[j].customName # d.customName

\* C17: key 'd' adds one duplicate for every selected node, with a new id,
\* the position (x+50, y) and the name N_copy, or N_copy_k for the smallest
\* unused k, which differs from the custom name of every other node.
C17_DuplicateNaming ==
    [][KeyDuplicate =>
          LET n == Len(nodes)
              sel == SelectedPositions
          IN  /\ Len(nodes') = n + Cardinality(sel)
              /\ \A i \in 1..n : nodes'[i] = nodes[i]
              /\ \E f \in [sel -> (n + 1)..(n + Cardinality(sel))] :
                    /\ \A i, j \in sel : i # j => f[i] # f[j]
                    /\ \A i \in sel : IsDuplicateOf(nodes'[f[i]], f[i], nodes[i])]_vars

\* The connections whose two ends are selected nodes.
ConnectionsInsideSelection ==
    {j \in 1..Len(connections) :
        /\ connections[j].fromNode \in selectedNodes
        /\ connections[j].toNode \in selectedNodes}

\* C18: key 'd' keeps the connections and adds one connection between the
\* two duplicates for exactly the connections whose two ends are selected
\* nodes; no added connection has an original node at an end.
C18_DuplicateConnections ==
    [][KeyDuplicate =>
          LET old == Len(connections)
              added == {connections'[k] : k \in (old + 1)..Len(connections')}
          IN  /\ Len(connections') >= old
              /\ SubSeq(connections', 1, old) = connections
              /\ Len(connections') = old + Cardinality(ConnectionsInsideSelection)
              /\ added = {[fromNode |-> DuplicateOf(connections[j].fromNode),
                           toNode |-> DuplicateOf(connections[j].toNode)] :
                             j \in ConnectionsInsideSelection}]_vars

\* The part of C18 that does not depend on which connections are selected:
\* every added connection joins the duplicates of the two ends of a
\* connection whose two ends are selected nodes.
C18_OnlyInsideSelection ==
    [][KeyDuplicate =>
          \A k \in (Len(connections) + 1)..Len(connections') :
              \E j \in ConnectionsInsideSelection :
                  connections'[k] = [fromNode |-> DuplicateOf(connections[j].fromNode),
                                     toNode |-> DuplicateOf(connections[j].toNode)]]_vars

(***************************************************************************)
(* Properties of the export.                                               *)
(***************************************************************************)
\* An export that writes its trees map.
ExportWrites == Export /\ ~ExportThrows

\* C19: the trees map of an export has one entry for every root node, under
\* the root's customName, or tree_N for the N-th root when it has none.
C19_OneTreePerRoot ==
    [][ExportWrites =>
          /\ \A k \in 1..Len(RootNodes) : TreeName(k) \in DOMAIN exported'
          /\ Cardinality(DOMAIN exported') = Len(RootNodes)]_vars

\* The children of a node that are not blackboards.
TreeChildren(id) ==
    {connections[j].toNode :
        j \in {k \in 1..Len(connections) :
                  connections[k].fromNode = id /\ NodeType(connections[k].toNode) # "blackboard"}}

\* The exported record t is the tree of the node id: it bears the node's
\* type and name, and its children array is an arrangement of all the
\* node's non-blackboard children in which x never decreases, each child
\* array entry being the tree of its child.
RECURSIVE TreeOf(_, _, _)
TreeOf(t, id, fuel) ==
    /\ t.category = NodeOf(id).type
    /\ t.custom_name = NodeOf(id).customName
    /\ t.type = (IF NodeOf(id).name = "History" THEN "BlackboardHistory" ELSE NodeOf(id).name)
    /\ Len(t.children) = Cardinality(TreeChildren(id))
    /\ \A k \in 1..Len(t.children) : t.children[k].category # "blackboard"
    /\ \E s \in [1..Len(t.children) -> TreeChildren(id)] :
          /\ \A a, b \in 1..Len(t.children) : a # b => s[a] # s[b]
          /\ \A a, b \in 1..Len(t.children) : a < b => NodeOf(s[a]).x <= NodeOf(s[b]).x
          /\ fuel > 0 => \A k \in 1..Len(t.children) : TreeOf(t.children[k], s[k], fuel - 1)

\* C20: in every exported tree the children array of a node lists the
\* node's non-blackboard children in ascending x, at every depth.
C20_ChildrenByX ==
    [][ExportWrites =>
          \A name \in DOMAIN exported' :
              \E k \in 1..Len(RootNodes) :
                  /\ TreeName(k) = name
                  /\ TreeOf(exported'[name], RootNodes[k].id, Len(nodes))]_vars

\* An exported Sequence whose children were connected in the order Repeat,
\* CustomAction and lie in the order CustomAction, Repeat from left to
\* right, with a Blackboard below the Sequence too.
C20_Witness ==
    /\ "tree_1" \in DOMAIN exported
    /\ Len(exported["tree_1"].children) = 1
    /\ Len(exported["tree_1"].children[1].children) = 2
    /\ exported["tree_1"].children[1].children[1].type = "CustomAction"
    /\ exported["tree_1"].children[1].children[2].type = "Repeat"
    /\ \E i, j \in 1..Len(connections) :
          /\ i < j
          /\ connections[i].fromNode = connections[j].fromNode
          /\ NodeOf(connections[i].toNode).name = "Repeat"
          /\ NodeOf(connections[j].toNode).name = "CustomAction"
          /\ NodeOf(connections[j].toNode).x < NodeOf(connections[i].toNode).x
    /\ \E j \in 1..Len(connections) :
          /\ NodeType(connections[j].toNode) = "blackboard"
          /\ NodeOf(connections[j].fromNode).name = "Sequence"

\* The config reference ids stored in the exported record t and below it.
RECURSIVE ConfigRefs(_)
ConfigRefs(t) ==
    {t.configs[c] : c \in DOMAIN t.configs}
        \cup UNION {ConfigRefs(t.children[k]) : k \in 1..Len(t.children)}

\* C21: every config reference id stored in a node of the exported trees
\* is a key of the exported configs table.
C21_ConfigRefsAreKeys ==
    \A name \in DOMAIN exported :
        ConfigRefs(exported[name]) \subseteq DOMAIN exportedConfigs

\* An export whose tree refers to two different config ids, below a root
\* that refers to one itself.
C21_Witness ==
    /\ DOMAIN exported # {}
    /\ \E name \in DOMAIN exported :
          /\ DOMAIN exported[name].configs # {}
          /\ Cardinality(ConfigRefs(exported[name])) = 2

(***************************************************************************)
(* Properties of the save confirmation.                                    *)
(***************************************************************************)
\* The answer 'cancel' to a confirmation that is up.
CancelStep ==
    \E saved \in BOOLEAN :
        \/ handleNewAnswer("cancel", saved)
        \/ MenuOpenAnswer("cancel", saved)
        \/ WindowCloseAnswer("cancel", saved)

\* C22: on the answer 'cancel' the graph and the used names stay, no file
\* is opened or written, and the application does not quit.
C22_CancelAborts ==
    [][CancelStep =>
          /\ nodes' = nodes
          /\ connections' = connections
          /\ usedNames' = usedNames
          /\ treeFile' = treeFile
          /\ ~isQuitting']_vars

\* A non-empty graph that is still there after a confirmation was raised
\* and answered 'cancel'.
C22_Witness ==
    /\ confirm = "none"
    /\ shouldSave = "cancel"
    /\ Len(nodes) = 2
    /\ usedNames = {"a", "a_copy"}
    /\ treeFile.logical.nodes[1].customName = "a"
    /\ ~isQuitting

(***************************************************************************)
(* Properties of function templates.                                       *)
(***************************************************************************)
\* The position in the new node list of the clone of the k-th recorded node.
CloneAt(k) == Len(nodes) + k

\* The ids of the nodes before the step.
OldIds == {n.id : n \in Range(nodes)}

\* C23: instantiateFunction adds one node for every recorded node, with a
\* new id, no customName and the recorded position moved by (50, 50), and
\* one connection between the two clones for every recorded connection; no
\* blackboard is cloned, no new connection touches a node that was there,
\* and the nodes and connections that were there are unchanged.
C23_TemplateInstantiation ==
    [][\A t \in DOMAIN functionTemplates :
          instantiateFunction(t) =>
             LET tpl == functionTemplates[t]
                 n == Len(nodes)
                 c == Len(connections)
                 PlaceOf(id) == CHOOSE k \in 1..Len(tpl.nodes) : tpl.nodes[k].id = id
             IN  /\ Len(nodes') = n + Len(tpl.nodes)
                 /\ SubSeq(nodes', 1, n) = nodes
                 /\ \A k \in 1..Len(tpl.nodes) :
                       LET clone == nodes'[CloneAt(k)]
                       IN  /\ clone.id \notin OldIds
                           /\ \A q \in 1..Len(tpl.nodes) :
                                 q # k => nodes'[CloneAt(q)].id # clone.id
                           /\ clone.customName = ""
                           /\ clone.x = tpl.nodes[k].x + 50
                           /\ clone.y = tpl.nodes[k].y + 50
                           /\ clone.type = tpl.nodes[k].type
                           /\ clone.name = tpl.nodes[k].name
                           /\ clone.type # "blackboard"
                 /\ Len(connections') = c + Len(tpl.connections)
                 /\ SubSeq(connections', 1, c) = connections
                 /\ \A j \in 1..Len(tpl.connections) :
                       /\ connections'[c + j].fromNode
                             = nodes'[CloneAt(PlaceOf(tpl.connections[j].fromNode))].id
                       /\ connections'[c + j].toNode
                             = nodes'[CloneAt(PlaceOf(tpl.connections[j].toNode))].id
                       /\ connections'[c + j].fromNode \notin OldIds
                       /\ connections'[c + j].toNode \notin OldIds]_vars

\* The clone of a recorded Root, Sequence and CustomAction beside the
\* document's four nodes, the Blackboard not cloned.
C23_Witness ==
    /\ DOMAIN functionTemplates # {}
    /\ Len(nodes) = 7
    /\ Len(connections) = 5
    /\ nodes[5].type = "root" /\ nodes[5].customName = ""
    /\ nodes[6].name = "Sequence" /\ nodes[6].customName = ""
    /\ nodes[5].x = nodes[1].x + 50
    /\ \E j \in 1..Len(connections) :
          connections[j].fromNode = nodes[5].id /\ connections[j].toNode = nodes[6].id

(***************************************************************************)
(* Properties of the interaction modes.                                    *)
(***************************************************************************)
ActiveModes ==
    {m \in {"dragging", "panning", "drawing", "rectangle"} :
        \/ m = "dragging" /\ isDragging
        \/ m = "panning" /\ isPanning
        \/ m = "drawing" /\ isDrawingConnection
        \/ m = "rectangle" /\ isRectangleSelecting}

\* C24: at most one of isDragging, isPanning, isDrawingConnection and
\* isRectangleSelecting is true.
C24_OneModeAtATime == Cardinality(ActiveModes) <= 1

\* A pointer-up that ends a connection-draw gesture.
DrawExitStep ==
    /\ isDrawingConnection
    /\ connectionStartNode # NullRef
    /\ \E p \in PointerPoints : handleMouseUp(p)

\* C25: after a pointer-up that ends a connection-draw gesture
\* isDrawingConnection is false and connectionStartNode is null.
C25_DrawExitClears ==
    [][DrawExitStep => (~isDrawingConnection' /\ connectionStartNode' = NullRef)]_vars

(***************************************************************************)
(* Properties of the redo stack.                                           *)
(***************************************************************************)
\* A step of an operation that edits the graph: add node, connect, delete,
\* duplicate, rename, scalar edit.
MutationStep ==
    /\ \/ \E t \in AddTypes : AddNodeCall(t)
       \/ AddNodeResume
       \/ \E p \in EditPoints : handleMouseUp(p)
       \/ KeyDelete
       \/ \E dontAskAgain \in BOOLEAN : ModalYes(dontAskAgain)
       \/ KeyDuplicate
       \/ \E name \in CustomNames : updateNodeCustomName(currentNode, name)
       \/ \E v \in NTimesInputs : updateNodeNTimes(currentNode, v)
    /\ <<nodes, connections>>' # <<nodes, connections>>

\* C26: a graph mutation made while the redo stack is non-empty leaves the
\* redo stack empty.
C26_RedoInvalidated ==
    [][(redoStack # <<>> /\ MutationStep) => redoStack' = <<>>]_vars

\* The same for every mutation but duplicating and the late half of addNode.
C26_SavingMutations ==
    [][(redoStack # <<>> /\ MutationStep /\ ~KeyDuplicate /\ ~AddNodeResume)
          => redoStack' = <<>>]_vars

(***************************************************************************)
(* Properties of dragging.                                                 *)
(***************************************************************************)
\* A pointer-move of a drag gesture that changes a position.
DragMoveStep == (\E d \in DragMoves : handleMouseMove(d)) /\ nodes' # nodes

\* C27: the first move of a drag gesture that changes a position pushes one
\* snapshot of the graph as it was, the later moves push none, and so does a
\* press or a release on a node body.
C27_DragCheckpoint ==
    [][/\ (DragMoveStep /\ ~opDrag)
            => undoStack' = saveStateUndo(nodes, connections, usedNames)
       /\ (DragMoveStep /\ opDrag) => undoStack' = undoStack
       /\ (\E n \in Range(nodes) : \E m \in BOOLEAN : handleMouseDown(BodyPoint(n), m))
            => undoStack' = undoStack
       /\ (isDragging /\ ~isDrawingConnection /\ \E p \in EditPoints : handleMouseUp(p))
            => undoStack' = undoStack]_vars

\* The part of C27 that is not about the first move.
C27_NoOtherCheckpoint ==
    [][/\ (DragMoveStep /\ opDrag) => undoStack' = undoStack
       /\ (\E n \in Range(nodes) : \E m \in BOOLEAN : handleMouseDown(BodyPoint(n), m))
            => undoStack' = undoStack
       /\ (isDragging /\ ~isDrawingConnection /\ \E p \in EditPoints : handleMouseUp(p))
            => undoStack' = undoStack]_vars

\* The nodes below the nodes of S: the ends of the connection paths that
\* start in S.
RECURSIVE BelowWithin(_, _)
BelowWithin(S, steps) ==
    IF steps = 0
    THEN {}
    ELSE LET children == {connections[j].toNode :
                             j \in {k \in 1..Len(connections) : connections[k].fromNode \in S}}
         IN  children \cup BelowWithin(children, steps - 1)
Below(S) == BelowWithin(S, Len(connections))

\* The nodes a pointer-move of the drag is to carry.
Carried28 ==
    IF draggedNode.id \in selectedNodes
    THEN selectedNodes \cup Below(selectedNodes)
    ELSE {draggedNode.id} \cup Below({draggedNode.id})

\* C28: a pointer-move of a drag translates the grabbed node, or every
\* selected node when the grabbed node is selected, and every node below
\* them by the pointer delta once; the other nodes and the connection list
\* are unchanged.
C28_DragTranslation ==
    [][\A d \in DragMoves :
          handleMouseMove(d) =>
             /\ Len(nodes') = Len(nodes)
             /\ \A i \in 1..Len(nodes) :
                   nodes'[i] = IF nodes[i].id \in Carried28
                               THEN [nodes[i] EXCEPT !.x = @ + d.x, !.y = @ + d.y]
                               ELSE nodes[i]
             /\ connections' = connections]_vars

\* The same for the drags of canvases on which only nodes with has_children
\* have children and no node is below itself.
C28_OnTrees ==
    [][\A d \in DragMoves :
          (/\ handleMouseMove(d)
           /\ \A j \in 1..Len(connections) :
                 IsLive(connections[j].fromNode) => NodeOf(connections[j].fromNode).has_children
           /\ \A n \in Range(nodes) : n.id \notin Below({n.id})) =>
             /\ Len(nodes') = Len(nodes)
             /\ \A i \in 1..Len(nodes) :
                   nodes'[i] = IF nodes[i].id \in Carried28
                               THEN [nodes[i] EXCEPT !.x = @ + d.x, !.y = @ + d.y]
                               ELSE nodes[i]
             /\ connections' = connections]_vars
\* The closed node box meets the closed rectangle.
BoxMeets(node, left, top, right, bottom) ==
    /\ node.x <= right /\ node.x + calculateNodeWidth(node) >= left
    /\ node.y <= bottom /\ node.y + NODE_HEIGHT >= top

\* The straight segment from a to b meets the closed rectangle: the two
\* overlap on both axes and the corners are not all strictly on one side
\* of the line through a and b.
ChordMeets(a, b, left, top, right, bottom) ==
    LET side(cx, cy) == (b.x - a.x) * (cy - a.y) - (b.y - a.y) * (cx - a.x)
        corners == {side(left, top), side(left, bottom), side(right, top),
                    side(right, bottom)}
    IN  /\ Min(a.x, b.x) <= right /\ Max(a.x, b.x) >= left
        /\ Min(a.y, b.y) <= bottom /\ Max(a.y, b.y) >= top
        /\ ~(\A c \in corners : c > 0)
        /\ ~(\A c \in corners : c < 0)

NodesInRectangle(start, current) ==
    {n.id : n \in {m \in Range(nodes) :
        BoxMeets(m, Min(start.x, current.x), Min(start.y, current.y),
                 Max(start.x, current.x), Max(start.y, current.y))}}

ConnectionsInRectangle(start, current) ==
    {j \in 1..Len(connections) :
        ChordMeets(CurveFrom(j), CurveTo(j), Min(start.x, current.x),
                   Min(start.y, current.y), Max(start.x, current.x),
                   Max(start.y, current.y))}

\* C29: after every pointer move of a rectangle-select gesture the selection
\* is the set of nodes whose box meets the rectangle and of connections
\* whose chord meets it, together with the selection at the start of the
\* gesture when the additive modifier was held at the press, and without it
\* otherwise.
C29_RectangleSelection ==
    [][\A p \in RectanglePoints :
          handleMouseMoveRectangle(p) =>
             /\ selectedNodes' =
                   NodesInRectangle(selectionStart, p) \cup
                     (IF gestureStart.additive THEN gestureStart.selectedNodes ELSE {})
             /\ selectedConnections' =
                   ConnectionsInRectangle(selectionStart, p) \cup
                     (IF gestureStart.additive THEN gestureStart.selectedConnections
                      ELSE {})]_vars

\* The node part of C29.
C29_Nodes ==
    [][\A p \in RectanglePoints :
          handleMouseMoveRectangle(p) =>
             selectedNodes' =
                 NodesInRectangle(selectionStart, p) \cup
                   (IF gestureStart.additive THEN gestureStart.selectedNodes ELSE {})]_vars

\* The part of C29 on gestures started without the additive modifier and
\* on nodes only: the selection is replaced by the nodes in the rectangle.
C29_Replacing ==
    [][\A p \in RectanglePoints :
          handleMouseMoveRectangle(p) /\ ~gestureStart.additive =>
             selectedNodes' = NodesInRectangle(selectionStart, p)]_vars

\* The connection part of C29 on gestures started without the modifier.
C29_Chords ==
    [][\A p \in RectanglePoints :
          handleMouseMoveRectangle(p) /\ ~gestureStart.additive =>
             selectedConnections' = ConnectionsInRectangle(selectionStart, p)]_vars

\* The logical node of the document that the k-th loaded node was made from.
RECURSIVE LoadableAt(_, _)
LoadableAt(S, k) ==
    LET least == CHOOSE i \in S : \A j \in S : i <= j
    IN  IF k = 1 THEN least ELSE LoadableAt(S \ {least}, k - 1)

\* C30: after open() has loaded the document, every loaded node has the id
\* the document stores for it, and every loaded connection joins the nodes
\* that carry the fromNodeId and the toNodeId of a connection of the document.
C30_IdsPreserved ==
    [][Open =>
          /\ Len(nodes') = Cardinality(Loadable(treeFile))
          /\ \A k \in 1..Len(nodes') :
                nodes'[k].id = treeFile.logical.nodes[LoadableAt(Loadable(treeFile), k)].id
          /\ \A j \in 1..Len(connections') :
                \E c \in Range(treeFile.logical.connections) :
                    /\ connections'[j].fromNode = c.fromNodeId
                    /\ connections'[j].toNode = c.toNodeId]_vars

\* The part of C30 that does not name the ids: every loaded connection
\* joins the nodes made from the logical nodes its document connection names.
C30_ConnectionsFollowNodes ==
    [][Open =>
          \A j \in 1..Len(connections') :
              \E c \in Range(treeFile.logical.connections) :
                  \E a, b \in 1..Len(nodes') :
                      /\ connections'[j].fromNode = nodes'[a].id
                      /\ connections'[j].toNode = nodes'[b].id
                      /\ treeFile.logical.nodes[LoadableAt(Loadable(treeFile), a)].id
                             = c.fromNodeId
                      /\ treeFile.logical.nodes[LoadableAt(Loadable(treeFile), b)].id
                             = c.toNodeId]_vars

\* A step that takes a node or a connection off the canvas.
RemovalStep ==
    \/ \E n \in Range(nodes) : \A m \in Range(nodes') : m.id # n.id
    \/ Len(connections') < Len(connections)

\* C31: while skipDeleteConfirmation is false, the delete key with a
\* non-empty selection leaves the node list and the connection list as they
\* are and puts the confirmation on screen; nothing is deleted before the Yes
\* answer (the only steps that take a node or a connection away while the
\* flag is false are the Yes answer, undo and redo); the No answer leaves the
\* graph and the selection unchanged.
C31_DeleteGate ==
    [][/\ (KeyDelete /\ ~skipDeleteConfirmation) =>
              /\ nodes' = nodes /\ connections' = connections
              /\ deleteModal'
       /\ (RemovalStep /\ ~skipDeleteConfirmation) =>
              \/ deleteModal /\ \E dontAskAgain \in BOOLEAN : ModalYes(dontAskAgain)
              \/ Undo
              \/ Redo
       /\ ModalNo => UNCHANGED <<graph, selection>>]_vars

\* The confirmation is on screen over a selected node that has a connection,
\* with the flag false.
C31_Witness ==
    /\ deleteModal
    /\ ~skipDeleteConfirmation
    /\ \E j \in 1..Len(connections) : connections[j].fromNode \in selectedNodes
    /\ \A m \in selectedNodes : IsLive(m)

\* Stack `new` holds every snapshot of stack `old`, unchanged and in place,
\* under what was pushed since.
StackKept(old, new) == Len(old) <= Len(new) /\ SubSeq(new, 1, Len(old)) = old

\* Stack `new` is stack `old` without its top.
StackPopped(old, new) == Len(old) > 0 /\ new = SubSeq(old, 1, Len(old) - 1)

\* Stack `new` is full and holds the snapshots of `old` above the `a`
\* oldest, unchanged, under what was pushed since.
StackShifted(old, new, a) ==
    /\ Len(new) = MAX_UNDO_STACK_SIZE
    /\ a <= Len(old)
    /\ Len(old) - a <= Len(new)
    /\ SubSeq(new, 1, Len(old) - a) = SubSeq(old, a + 1, Len(old))

\* C32: a snapshot on the undo or the redo stack does not change after it
\* was pushed: across every step each stack keeps its snapshots as they
\* are, apart from the one undo() or redo() pops, the oldest ones shift()
\* drops from a full undo stack, and the redo stack being emptied.
C32_SnapshotIsolation ==
    [][/\ \/ StackKept(undoStack, undoStack')
          \/ StackPopped(undoStack, undoStack') /\ Undo
          \/ \E a \in 1..2 : StackShifted(undoStack, undoStack', a)
       /\ \/ StackKept(redoStack, redoStack')
          \/ StackPopped(redoStack, redoStack') /\ Redo
          \/ redoStack' = <<>>]_vars

\* Two checkpoints are stacked and a node was moved or renamed, or its
\* n_times edited, since the newer one was pushed.
C32_Witness ==
    /\ Len(undoStack) = 2
    /\ \E n \in Range(nodes) : \E m \in Range(undoStack[2].nodes) :
          /\ n.id = m.id
          /\ n # m
    /\ undoStack[1].nodes # undoStack[2].nodes

\* C33: the checkpoint of addNode and the insertion of its node are not
\* separated by another graph operation: when the node is appended, the top
\* of the undo stack is the checkpoint of the graph as it is right before
\* the node, so that one undo() removes exactly the added node.
C33_AddNodeAtomic ==
    [][AddNodeResume =>
          /\ Len(undoStack') > 0
          /\ undoStack'[Len(undoStack')] = Snapshot(nodes, connections, usedNames)]_vars

\* C34: in every reachable state the fromNode and the toNode of every
\* connection are node objects of the current node list.
C34_NoDanglingEndpoints ==
    \A j \in 1..Len(connections) :
        IsLive(connections[j].fromNode) /\ IsLive(connections[j].toNode)

\* C35: in every reachable state usedNames is the set of the non-empty
\* customName values of the nodes of the node list.
C35_UsedNamesConsistent ==
    usedNames = {n.customName : n \in Range(nodes)} \ {""}

\* C36: in every state reached by connection-draw gestures the fromNode of
\* every connection is a node with has_children true.
C36_ParentsCanHaveChildren ==
    \A j \in 1..Len(connections) :
        \A n \in Range(nodes) : n.id = connections[j].fromNode => n.has_children

\* C37: when handleNew asked on a non-empty graph and the answer is 'save',
\* the canvas is cleared only if the save completed: when the save dialog
\* is dismissed, so that no file holds the graph, the node list, the
\* connection list and the used names are unchanged.
C37_NewKeepsUnsavedWork ==
    [][(/\ handleNewAnswer("save", FALSE)
        /\ treeFile' # serializeTree(nodes, connections)) =>
          UNCHANGED <<nodes, connections, usedNames>>]_vars

\* C38: a template is a snapshot of the subtree at capture time: no step
\* other than a capture under the same root changes what instantiateFunction
\* makes of it (the clones' fields, config values and connections).
C38_TemplateIsSnapshot ==
    [][\A t \in DOMAIN functionTemplates :
          (/\ t \in DOMAIN functionTemplates'
           /\ ~\E n \in Range(nodes) : CreateFunction(BodyPoint(n))) =>
              cloneSubtree(functionTemplates'[t], nextId)
                  = cloneSubtree(functionTemplates[t], nextId)]_vars

\* The part of C38 on moving the original nodes: a drag changes no template.
C38_DragKeepsTemplate ==
    [][(\E d \in DragMoves : handleMouseMove(d)) =>
          functionTemplates' = functionTemplates]_vars

\* C39: in every reachable state the template ids stored in functionTemplates
\* are the node ids of the function buttons of the ribbon.
C39_RegistryAgreesWithButtons ==
    DOMAIN functionTemplates = {functionButtons[k].nodeId : k \in 1..Len(functionButtons)}

\* C40: after clear() (New) and after loadTree() (Open) the undo stack and
\* the redo stack are empty, so that a following undo or redo brings back
\* nothing of the discarded graph.
C40_HistoryCleared ==
    [][(OpenFile \/ clear) => (undoStack' = <<>> /\ redoStack' = <<>>)]_vars

====
